---- MODULE Spec2Model ----
(***************************************************************************)
(* A model of the anvil CAD builder types: the deferred action log of      *)
(* Sketch, its fold against a Plane, the eager Part wrapper, and the       *)
(* measure-based equality of both.                                         *)
(*                                                                         *)
(* Geometry is modelled on an integer grid.  A length is an exact rational *)
(* number of grid ticks <<num, den>>; there are `tpm` ticks in one metre.  *)
(* A kernel shape is the set of unit grid cells it covers, so that the     *)
(* kernel's boolean operations are the set operations, its measure is the  *)
(* number of cells and its centroid the mean of the cell centres.  The     *)
(* inputs are restricted to those whose results lie on the grid            *)
(* (axis-parallel lines, rotations by multiples of 90 degrees, integral    *)
(* translations).                                                          *)
(***************************************************************************)
EXTENDS Integers, Sequences, FiniteSets, TLC

VARIABLES
    tpm,     \* grid ticks per metre: the absolute size of the drawing
    sk,      \* the Sketch values under construction (action logs)
    part,    \* two Part values (inner: None or Some(kernel shape))
    op,      \* the operation that produced the current state
    recv,    \* the receiver of that operation, as it was before the call
    arg,     \* the argument of that operation
    ret,     \* the value the operation returned
    steps,   \* number of operations performed so far
    files    \* the file system: what each path holds

vars == <<tpm, sk, part, op, recv, arg, ret, steps, files>>

(***************************************************************************)
(* Bounds                                                                  *)
(***************************************************************************)
MaxSteps == 1
MaxPartSteps == 2

\* the paths a Part is exported to, and the file system before any export
Paths == {"a", "b"}
NoFile == [k |-> "NoFile"]
NoFiles == [p \in Paths |-> NoFile]

(***************************************************************************)
(* Exact arithmetic on lengths (rationals <<num, den>>, den > 0, reduced)  *)
(***************************************************************************)
Abs(x) == IF x < 0 THEN -x ELSE x

RECURSIVE Gcd(_, _)
Gcd(a, b) == IF b = 0 THEN a ELSE Gcd(b, a % b)

Rat(n, d) ==
    LET s == IF d < 0 THEN -1 ELSE 1
        g == Gcd(Abs(n), Abs(d))
    IN  <<(s * n) \div g, (s * d) \div g>>

RInt(k) == <<k, 1>>
RAdd(a, b) ==
    IF a[2] = 1 /\ b[2] = 1 THEN <<a[1] + b[1], 1>>
    ELSE Rat(a[1] * b[2] + b[1] * a[2], a[2] * b[2])
RSub(a, b) ==
    IF a[2] = 1 /\ b[2] = 1 THEN <<a[1] - b[1], 1>>
    ELSE Rat(a[1] * b[2] - b[1] * a[2], a[2] * b[2])
RMul(a, b) ==
    IF a[2] = 1 /\ b[2] = 1 THEN <<a[1] * b[1], 1>>
    ELSE Rat(a[1] * b[1], a[2] * b[2])
RDiv(a, b) == Rat(a[1] * b[2], a[2] * b[1])
\* a < b: the whole parts are compared first, then the fractional parts on
\* the least common denominator
RLess(a, b) ==
    LET g == Gcd(a[2], b[2])
    IN  \/ a[1] \div a[2] < b[1] \div b[2]
        \/ /\ a[1] \div a[2] = b[1] \div b[2]
           /\ (a[1] % a[2]) * (b[2] \div g) < (b[1] % b[2]) * (a[2] \div g)
RIsInt(a) == a[2] = 1
RIsZero(a) == a[1] = 0

\* f64::round: to the nearest integer, halves away from zero
RoundHalfAway(a) ==
    LET n == a[1]
        d == a[2]
        q == (2 * Abs(n) + d) \div (2 * d)
    IN  IF n < 0 THEN -q ELSE q

(***************************************************************************)
(* Points and directions                                                   *)
(***************************************************************************)
Point2D(x, y) == [x |-> x, y |-> y]
P2(i, j) == Point2D(RInt(i), RInt(j))
Point2D_origin == P2(0, 0)
Point3D(x, y, z) == [x |-> x, y |-> y, z |-> z]
P3(i, j, k) == Point3D(RInt(i), RInt(j), RInt(k))
Point3D_origin == P3(0, 0, 0)
Point3D_add(a, b) == Point3D(RAdd(a.x, b.x), RAdd(a.y, b.y), RAdd(a.z, b.z))
Point3D_sub(a, b) == Point3D(RSub(a.x, b.x), RSub(a.y, b.y), RSub(a.z, b.z))
Point2D_sub(a, b) == Point2D(RSub(a.x, b.x), RSub(a.y, b.y))

\* a Dir3 with integer components <<x, y, z>>
Dir3_cross(a, b) ==
    <<a[2] * b[3] - a[3] * b[2], a[3] * b[1] - a[1] * b[3], a[1] * b[2] - a[2] * b[1]>>
Dir3_mul_Length(d, l) == Point3D(RMul(RInt(d[1]), l), RMul(RInt(d[2]), l), RMul(RInt(d[3]), l))

(***************************************************************************)
(* Plane: origin and two orthogonal unit directions                        *)
(***************************************************************************)
Plane(o, x, y) == [origin |-> o, x_axis |-> x, y_axis |-> y]
Plane_xy == Plane(Point3D_origin, <<1, 0, 0>>, <<0, 1, 0>>)
Plane_xz == Plane(Point3D_origin, <<1, 0, 0>>, <<0, 0, 1>>)
Plane_yz == Plane(Point3D_origin, <<0, 1, 0>>, <<0, 0, 1>>)
Plane_normal(pl) == Dir3_cross(pl.x_axis, pl.y_axis)

Point2D_to_3d(p, pl) ==
    Point3D_add(pl.origin,
        Point3D_add(Dir3_mul_Length(pl.x_axis, p.x), Dir3_mul_Length(pl.y_axis, p.y)))

\* the coordinates of a 3D vector in the frame (x_axis, y_axis, normal) of a plane
DotP(d, w) == RAdd(RMul(RInt(d[1]), w.x), RAdd(RMul(RInt(d[2]), w.y), RMul(RInt(d[3]), w.z)))
InFrame(w, pl) == <<DotP(pl.x_axis, w), DotP(pl.y_axis, w), DotP(Plane_normal(pl), w)>>

(***************************************************************************)
(* The geometry kernel.  A shape is a set of cells <<a, b, c>>.  A solid   *)
(* cell is the unit cube [a,a+1] x [b,b+1] x [c,c+1] of global space       *)
(* (a, b, c integers).  A face cell is the unit square [a,a+1] x [b,b+1]   *)
(* at height c (a rational) in the frame of the plane it was built on.     *)
(***************************************************************************)
Fuse(A, B) == A \cup B
Common(A, B) == A \cap B
Cut(A, B) == A \ B
Mass(S) == Cardinality(S)

\* sum of 2 * c[i] + 1 over the cells c of S (twice the sum of the i-th
\* coordinates of the cell centres), taken coordinate value by value
RECURSIVE SumFrom(_, _, _, _)
SumFrom(S, i, v, hi) ==
    IF v > hi THEN 0
    ELSE (2 * v + 1) * Cardinality({c \in S : c[i] = v}) + SumFrom(S, i, v + 1, hi)

SumCoord(S, i) ==
    IF S = {} THEN 0
    ELSE LET vals == {c[i] : c \in S}
         IN  SumFrom(S, i, CHOOSE x \in vals : \A y \in vals : x <= y,
                     CHOOSE x \in vals : \A y \in vals : x >= y)

\* sum of the heights of the cells of a face, height by height
RECURSIVE SumHeights(_, _)
SumHeights(S, hs) ==
    IF hs = {} THEN RInt(0)
    ELSE LET h == CHOOSE x \in hs : TRUE
         IN  RAdd(RMul(h, RInt(Cardinality({c \in S : c[3] = h}))), SumHeights(S, hs \ {h}))

SumHeight(S) == SumHeights(S, {c[3] : c \in S})

\* centre of mass of a solid; a shape of zero mass reports the origin
SolidCentre(S) ==
    IF S = {} THEN Point3D_origin
    ELSE Point3D(Rat(SumCoord(S, 1), 2 * Mass(S)),
                 Rat(SumCoord(S, 2), 2 * Mass(S)),
                 Rat(SumCoord(S, 3), 2 * Mass(S)))

\* centre of mass of a face, in the frame of its plane
FaceCentreLocal(S) ==
    IF S = {} THEN <<RInt(0), RInt(0), RInt(0)>>
    ELSE <<Rat(SumCoord(S, 1), 2 * Mass(S)),
           Rat(SumCoord(S, 2), 2 * Mass(S)),
           RMul(SumHeight(S), Rat(1, Mass(S)))>>

\* frame coordinates <<a, b, c>> -> global point a*x_axis + b*y_axis + c*normal
FromFrame(l, pl) ==
    Point3D_add(Dir3_mul_Length(pl.x_axis, l[1]),
        Point3D_add(Dir3_mul_Length(pl.y_axis, l[2]),
                    Dir3_mul_Length(Plane_normal(pl), l[3])))

FaceCentre(S, pl) == FromFrame(FaceCentreLocal(S), pl)

\* translation of a face by a vector given in frame coordinates
\* (the in-plane components are integral)
TranslateFace(S, w) == {<<c[1] + w[1][1], c[2] + w[2][1], RAdd(c[3], w[3])>> : c \in S}
TranslateSolid(S, v) == {<<c[1] + v[1], c[2] + v[2], c[3] + v[3]>> : c \in S}

\* rotation of a face by quarter turns (counter-clockwise seen along the
\* normal) about the in-plane pivot <<pu, pv>>, given by
\* the integers ps = pu + pv and pd = pv - pu
RECURSIVE RotateFaceQ(_, _, _, _)
RotateFaceQ(S, ps, pd, q) ==
    IF q = 0 THEN S
    ELSE RotateFaceQ({<<ps - c[2] - 1, pd + c[1], c[3]>> : c \in S}, ps, pd, q - 1)

\* uniform scaling of a face by the natural factor f about the pivot given
\* in frame coordinates; (1 - f) * pivot is integral in the plane
ScaleFace(S, piv, f) ==
    LET ou == RMul(RInt(1 - f), piv[1])[1]
        ov == RMul(RInt(1 - f), piv[2])[1]
    IN  {<<ou + f * c[1] + i, ov + f * c[2] + j,
           RAdd(RMul(RInt(1 - f), piv[3]), RMul(RInt(f), c[3]))>> :
             c \in S, i \in 0 .. (f - 1), j \in 0 .. (f - 1)}

(***************************************************************************)
(* Option and Result values                                                *)
(***************************************************************************)
None == [k |-> "None"]
Some(v) == [k |-> "Some", v |-> v]
Ok(v) == [k |-> "Ok", v |-> v]
Err(e) == [k |-> "Err", e |-> e]
\* the thread panicked (todo!(), panic!(), unwrap on an Err)
Panic == [k |-> "Panic"]
IsSome(o) == o.k = "Some"
IsNone(o) == o.k = "None"
IsOk(r) == r.k = "Ok"
IsErr(r) == r.k = "Err"
IsPanic(r) == r.k = "Panic"
\* Result::ok(); a panic, or a result that is not represented, stays what it is
ResultOk(r) == IF IsOk(r) THEN Some(r.v) ELSE IF r.k \in {"Panic", "OffGrid"} THEN r ELSE None

(***************************************************************************)
(* Dir3 and Plane::new on component triples <<x, y, z>> of rationals; the  *)
(* vectors handed to Plane::new have a rational magnitude, so that f64     *)
(* sqrt and division are the exact ones                                    *)
(***************************************************************************)
Dir3_from(vec) == <<vec[1], vec[2], vec[3]>>

\* x * x = n for the perfect square n
Sqrt(n) == CHOOSE r \in 0 .. n : r * r = n

Lcm(a, b) == (a \div Gcd(a, b)) * b

\* sqrt(x^2 + y^2 + z^2), computed on the common denominator of x, y, z
Dir3_magnitude(self) ==
    LET den == Lcm(self[1][2], Lcm(self[2][2], self[3][2]))
        num(c) == c[1] * (den \div c[2])
    IN  Rat(Sqrt(num(self[1]) * num(self[1]) + num(self[2]) * num(self[2])
                 + num(self[3]) * num(self[3])), den)

Dir3_normalize_by(self, mag) ==
    IF RIsZero(mag) THEN Err(<<"ZeroVector", self>>)
    ELSE Ok(<<RDiv(self[1], mag), RDiv(self[2], mag), RDiv(self[3], mag)>>)

Dir3_normalize(self) == Dir3_normalize_by(self, Dir3_magnitude(self))

Dir3_dot(self, other) ==
    RAdd(RMul(self[1], other[1]), RAdd(RMul(self[2], other[2]), RMul(self[3], other[3])))

Dir3_cross_rational(self, other) ==
    <<RSub(RMul(self[2], other[3]), RMul(self[3], other[2])),
      RSub(RMul(self[3], other[1]), RMul(self[1], other[3])),
      RSub(RMul(self[1], other[2]), RMul(self[2], other[1]))>>

\* the literal 1e-9 of Plane::new
OrthogonalTol == Rat(1, 1000000000)

\* Ok(Self(origin, x_axis.normalize()?, y_axis.normalize()?))
Plane_new_normalized(origin, x, y) ==
    IF ~IsOk(x) THEN x
    ELSE IF ~IsOk(y) THEN y
    ELSE Ok(Plane(origin, x.v, y.v))

Plane_new_y_unnormalized(origin, x_axis, y_axis) ==
    IF ~RLess(Dir3_dot(Dir3_from(x_axis), Dir3_from(y_axis)), OrthogonalTol)
    THEN Err(<<"VectorsNotOrthogonal", Dir3_from(x_axis), Dir3_from(y_axis)>>)
    ELSE Plane_new_normalized(origin, Dir3_normalize(Dir3_from(x_axis)),
                              Ok(Dir3_from(y_axis)))

Plane_new(origin, x_axis, y_axis) ==
    IF ~RLess(Dir3_dot(Dir3_from(x_axis), Dir3_from(y_axis)), OrthogonalTol)
    THEN Err(<<"VectorsNotOrthogonal", Dir3_from(x_axis), Dir3_from(y_axis)>>)
    ELSE Plane_new_normalized(origin, Dir3_normalize(Dir3_from(x_axis)),
                              Dir3_normalize(Dir3_from(y_axis)))

\* .expect("error in axis def")
Plane_expect(r) == IF IsOk(r) THEN r.v ELSE Panic

\* Plane::normal of a Plane whose axes are rational triples
Plane_normal_rational(self) == Dir3_cross_rational(self.x_axis, self.y_axis)

\* the Dir3 with integer components of a rational triple with whole components
Dir3_whole(d) == <<d[1][1], d[2][1], d[3][1]>>
(***************************************************************************)
(* Edge                                                                    *)
(***************************************************************************)
Line(a, b) == [t |-> "Line", a |-> a, b |-> b]
Circle(c, r) == [t |-> "Circle", a |-> c, r |-> r]

Edge_start(e) == e.a
Edge_end(e) == IF e.t = "Circle" THEN e.a ELSE e.b

\* Edge::len() == Length::zero()
Edge_len_is_zero(e) ==
    IF e.t = "Circle" THEN RIsZero(e.r)
    ELSE LET diff == Point2D_sub(e.a, e.b)
         IN  RIsZero(RAdd(RMul(diff.x, diff.x), RMul(diff.y, diff.y)))

\* Edge::to_occt: the kernel edge of a non-degenerate edge, projected
\* through the plane and given in the frame of the plane
Edge_to_occt_keeps_degenerate(e, pl) ==
    IF e.t = "Circle"
    THEN Some([t |-> "Circle", a |-> InFrame(Point2D_to_3d(e.a, pl), pl), r |-> e.r])
    ELSE Some([t |-> "Line", a |-> InFrame(Point2D_to_3d(e.a, pl), pl),
                             b |-> InFrame(Point2D_to_3d(e.b, pl), pl)])
Edge_to_occt(e, pl) ==
    IF Edge_len_is_zero(e) THEN None
    ELSE IF e.t = "Circle"
         THEN Some([t |-> "Circle", a |-> InFrame(Point2D_to_3d(e.a, pl), pl), r |-> e.r])
         ELSE Some([t |-> "Line", a |-> InFrame(Point2D_to_3d(e.a, pl), pl),
                                  b |-> InFrame(Point2D_to_3d(e.b, pl), pl)])

(***************************************************************************)
(* Kernel: wire and face from a sequence of kernel edges.  The face of a   *)
(* closed chain of axis-parallel lines is its interior (even-odd rule),    *)
(* the face of a circle is the set of cells whose centre lies inside it.   *)
(***************************************************************************)
Min(a, b) == IF a < b THEN a ELSE b
Max(a, b) == IF a < b THEN b ELSE a
SetMin(S) == CHOOSE x \in S : \A y \in S : x <= y
SetMax(S) == CHOOSE x \in S : \A y \in S : x >= y

EdgeUs(e) == IF e.t = "Circle" THEN {e.a[1][1] - e.r[1], e.a[1][1] + e.r[1]}
             ELSE {e.a[1][1], e.b[1][1]}
EdgeVs(e) == IF e.t = "Circle" THEN {e.a[2][1] - e.r[1], e.a[2][1] + e.r[1]}
             ELSE {e.a[2][1], e.b[2][1]}

\* the line crosses the ray going from the centre of cell <<u, v>> towards +u
Crosses(e, u, v) ==
    /\ e.t = "Line"
    /\ e.a[1][1] = e.b[1][1]
    /\ e.a[1][1] > u
    /\ Min(e.a[2][1], e.b[2][1]) <= v
    /\ v + 1 <= Max(e.a[2][1], e.b[2][1])

InDisc(e, u, v) ==
    /\ e.t = "Circle"
    /\ (2 * (u - e.a[1][1]) + 1) * (2 * (u - e.a[1][1]) + 1)
         + (2 * (v - e.a[2][1]) + 1) * (2 * (v - e.a[2][1]) + 1) < 4 * e.r[1] * e.r[1]

MakeFace(es) ==
    LET us == UNION {EdgeUs(es[i]) : i \in 1 .. Len(es)}
        vs == UNION {EdgeVs(es[i]) : i \in 1 .. Len(es)}
        h  == es[1].a[3]
    IN  {<<u, v, h>> : u \in SetMin(us) .. (SetMax(us) - 1), v \in SetMin(vs) .. (SetMax(vs) - 1)}
          \cap
        {c \in (SetMin(us) .. SetMax(us)) \X (SetMin(vs) .. SetMax(vs)) \X {h} :
            \/ Cardinality({i \in 1 .. Len(es) : Crosses(es[i], c[1], c[2])}) % 2 = 1
            \/ \E i \in 1 .. Len(es) : InDisc(es[i], c[1], c[2])}

\* fn edges_to_occt
edges_to_occt(edges, pl) ==
    LET make_face(occt_edges) ==
            IF Len(occt_edges) = 0 THEN Err("EmptySketch")
            ELSE Ok(MakeFace([i \in 1 .. Len(occt_edges) |-> occt_edges[i].v]))
    IN  make_face(SelectSeq([i \in 1 .. Len(edges) |-> Edge_to_occt(edges[i], pl)], IsSome))

occt_area(shape) == Mass(shape)

\* fn occt_center: the z component is read from X()
occt_center(shape, pl) ==
    LET point(c) == Point3D(c.x, c.y, c.x)
    IN  point(FaceCentre(shape, pl))

(***************************************************************************)
(* Kernel results that leave the grid are not represented: OffGrid.  The   *)
(* operations below are only offered inputs whose evaluation stays on it.  *)
(***************************************************************************)
OffGrid == [k |-> "OffGrid"]
IsOffGrid(r) == r.k = "OffGrid"
Failed(r) == IsPanic(r) \/ IsOffGrid(r)

(***************************************************************************)
(* SketchAction and the fold Sketch::to_occt                               *)
(***************************************************************************)
Add(o) == [t |-> "Add", o |-> o]
AddEdges(edges) == [t |-> "AddEdges", edges |-> edges]
Intersect(o) == [t |-> "Intersect", o |-> o]
MoveTo(p) == [t |-> "MoveTo", p |-> p]
RotateAround(p, angle) == [t |-> "RotateAround", p |-> p, angle |-> angle]
Scale(f) == [t |-> "Scale", f |-> f]
Subtract(o) == [t |-> "Subtract", o |-> o]

EdgeOnGrid(e) ==
    /\ RIsInt(e.a.x) /\ RIsInt(e.a.y)
    /\ IF e.t = "Circle" THEN RIsInt(e.r) /\ e.r[1] >= 0
       ELSE RIsInt(e.b.x) /\ RIsInt(e.b.y) /\ (e.a.x = e.b.x \/ e.a.y = e.b.y)

\* quarter turns of an angle in degrees
IsQuarterTurn(angle) == RIsInt(RMul(angle, Rat(1, 90)))
QuarterTurns(angle) == RMul(angle, Rat(1, 90))[1] % 4

\* A kernel shape in the accumulator of the fold: v is the geometry as it
\* lies in the frame of the plane and loc its TopLoc_Location, the rigid
\* motion x |-> R^q x + t (R the quarter turn about the normal through the
\* origin of the frame) that the kernel keeps apart from the geometry
Located(v, loc) == [k |-> "Some", v |-> v, loc |-> loc]
IdentityLocation == [q |-> 0, t |-> <<RInt(0), RInt(0), RInt(0)>>]
\* a shape the kernel has just built: its location is the identity
Built(v) == Located(v, IdentityLocation)

\* BRepBuilderAPI_Transform with a rotation and copy = false: the shape is
\* Moved, the rotation by q quarter turns about the pivot (ps = pu + pv,
\* pd = pv - pu) is composed onto its location
RECURSIVE RotateVec(_, _, _, _)
RotateVec(t, ps, pd, q) ==
    IF q = 0 THEN t
    ELSE RotateVec(<<RSub(RInt(ps), t[2]), RAdd(RInt(pd), t[1]), t[3]>>, ps, pd, q - 1)
Moved(shape, ps, pd, q) ==
    Located(RotateFaceQ(shape.v, ps, pd, q),
            [q |-> (shape.loc.q + q) % 4, t |-> RotateVec(shape.loc.t, ps, pd, q)])

\* the geometry of a shape with its location taken off
Unlocated(shape) ==
    RotateFaceQ(TranslateFace(shape.v, <<RSub(RInt(0), shape.loc.t[1]),
                                         RSub(RInt(0), shape.loc.t[2]),
                                         RSub(RInt(0), shape.loc.t[3])>>),
                0, 0, (4 - shape.loc.q) % 4)

\* TopoDS_Shape::Location(location): the location of the shape is replaced
\* by the translation w
set_global_translation(shape, w) ==
    Located(TranslateFace(Unlocated(shape), w), [q |-> 0, t |-> w])

\* the (None, Some) arm copied from Subtract
apply_Add_onto_empty_lost(sketch, other) ==
    IF IsNone(sketch) THEN None
    ELSE IF IsNone(other) THEN sketch
    ELSE Built(Fuse(sketch.v, other.v))

\* SketchAction::apply, the arms of the boolean actions: sketch is the
\* accumulator and other the evaluated operand, both Options
apply_Add(sketch, other) ==
    IF IsNone(sketch) /\ IsNone(other) THEN None
    ELSE IF IsNone(sketch) THEN other
    ELSE IF IsNone(other) THEN sketch
    ELSE Built(Fuse(sketch.v, other.v))

\* the common part kept whatever its area
apply_Intersect_uncollapsed(sketch, other) ==
    IF IsSome(sketch) /\ IsSome(other) THEN Built(Common(sketch.v, other.v)) ELSE None

apply_Intersect(sketch, other) ==
    IF IsSome(sketch) /\ IsSome(other)
    THEN LET new_shape == Common(sketch.v, other.v)
         IN  IF occt_area(new_shape) = 0 THEN None ELSE Built(new_shape)
    ELSE None

\* an empty operand treated as absorbing, as Intersect does
apply_Subtract_absorbing(sketch, other) ==
    IF IsSome(sketch) /\ IsSome(other) THEN Built(Cut(sketch.v, other.v)) ELSE None

apply_Subtract(sketch, other) ==
    IF IsNone(sketch) THEN None
    ELSE IF IsNone(other) THEN sketch
    ELSE Built(Cut(sketch.v, other.v))

RECURSIVE to_occt_located(_, _)
RECURSIVE apply(_, _, _)

\* Result::ok() of an evaluated operand
LocatedOk(r) ==
    IF IsOk(r) THEN Located(r.v, r.loc) ELSE IF r.k \in {"Panic", "OffGrid"} THEN r ELSE None

\* SketchAction::apply
apply(action, sketch, plane) ==
    IF Failed(sketch) THEN sketch
    ELSE IF action.t = "Add" THEN
        LET arm(other) == IF Failed(other) THEN other ELSE apply_Add(sketch, other)
        IN  arm(LocatedOk(to_occt_located(action.o, plane)))
    ELSE IF action.t = "AddEdges" THEN
        IF IsNone(sketch)
        THEN IF \A i \in 1 .. Len(action.edges) : EdgeOnGrid(action.edges[i])
             THEN LET built(face) == IF IsSome(face) THEN Built(face.v) ELSE face
                  IN  built(ResultOk(edges_to_occt(action.edges, plane)))
             ELSE OffGrid
        ELSE Panic
    ELSE IF action.t = "Intersect" THEN
        LET arm(other) == IF Failed(other) THEN other ELSE apply_Intersect(sketch, other)
        IN  arm(LocatedOk(to_occt_located(action.o, plane)))
    ELSE IF action.t = "MoveTo" THEN
        IF IsSome(sketch)
        THEN LET translate(w) ==
                     IF RIsInt(w[1]) /\ RIsInt(w[2])
                     THEN set_global_translation(sketch, w)
                     ELSE OffGrid
             IN  translate(InFrame(Point2D_to_3d(action.p, plane), plane))
        ELSE None
    ELSE IF action.t = "RotateAround" THEN
        IF IsSome(sketch)
        THEN LET rotate(piv) ==
                     IF IsQuarterTurn(action.angle) /\ QuarterTurns(action.angle) = 0
                     THEN sketch
                     ELSE IF /\ IsQuarterTurn(action.angle)
                             /\ RIsInt(RAdd(piv[1], piv[2]))
                             /\ RIsInt(RSub(piv[2], piv[1]))
                     THEN Moved(sketch, RAdd(piv[1], piv[2])[1],
                                RSub(piv[2], piv[1])[1],
                                QuarterTurns(action.angle))
                     ELSE OffGrid
             IN  rotate(InFrame(Point2D_to_3d(action.p, plane), plane))
        ELSE None
    ELSE IF action.t = "Scale" THEN
        IF IsSome(sketch)
        THEN LET scale(piv, f) ==
                     IF /\ f >= 1
                        /\ RIsInt(RMul(RInt(1 - f), piv[1]))
                        /\ RIsInt(RMul(RInt(1 - f), piv[2]))
                     THEN Located(ScaleFace(sketch.v, piv, f), sketch.loc)
                     ELSE OffGrid
             IN  scale(InFrame(occt_center(sketch.v, plane), plane), action.f)
        ELSE None
    ELSE \* Subtract
        LET arm(other) == IF Failed(other) THEN other ELSE apply_Subtract(sketch, other)
        IN  arm(LocatedOk(to_occt_located(action.o, plane)))

RECURSIVE fold(_, _, _, _)
fold(actions, i, occt, plane) ==
    IF i > Len(actions) THEN occt
    ELSE fold(actions, i + 1, apply(actions[i], occt, plane), plane)

\* Sketch::to_occt, the shape with its location
to_occt_located(self, plane) ==
    LET ok_or(occt) ==
            IF Failed(occt) THEN occt
            ELSE IF IsSome(occt) THEN [k |-> "Ok", v |-> occt.v, loc |-> occt.loc]
            ELSE Err("EmptySketch")
    IN  ok_or(fold(self, 1, None, plane))

\* an empty accumulator handed out as a shape without faces
to_occt_null_shape(self, plane) ==
    LET ok_or(occt) ==
            IF Failed(occt) THEN occt
            ELSE IF IsSome(occt) THEN Ok(occt.v)
            ELSE Ok({})
    IN  ok_or(fold(self, 1, None, plane))

\* Sketch::to_occt, the geometry of the shape
to_occt(self, plane) ==
    LET geometry(r) == IF IsOk(r) THEN Ok(r.v) ELSE r
    IN  geometry(to_occt_located(self, plane))

(***************************************************************************)
(* Part: inner is None or Some(solid)                                      *)
(***************************************************************************)
Part_empty == None
Part_from_occt(shape) == Some(shape)

(***************************************************************************)
(* Sketch: the public operations                                           *)
(***************************************************************************)
Sketch_empty == <<>>
Sketch_from_edges(edges) == <<AddEdges(edges)>>

Sketch_is_empty(self) == ~IsOk(to_occt(self, Plane_xy))

\* in cells; one cell is 1/tpm^2 square metres
Sketch_area(self) ==
    LET area(r) == IF IsOk(r) THEN occt_area(r.v) ELSE 0
    IN  area(to_occt(self, Plane_xy))

Sketch_center(self) ==
    LET point_2d(point_3d) == Point2D(point_3d.x, point_3d.y)
        center(r) == IF IsOk(r) THEN Ok(point_2d(occt_center(r.v, Plane_xy))) ELSE r
    IN  center(to_occt(self, Plane_xy))

\* the operand's actions spliced into the log instead of being nested
Sketch_add_spliced(self, other) == self \o other

\* the transformations of the operand hoisted into the log of the receiver
Sketch_add_hoisted(self, other) ==
    IF other = <<>> THEN Append(self, Add(other))
    ELSE Append(self, Add(<<other[1]>>)) \o Tail(other)

Sketch_add(self, other) == Append(self, Add(other))
Sketch_intersect(self, other) == Append(self, Intersect(other))
Sketch_subtract(self, other) == Append(self, Subtract(other))
\* the action put in front of the log instead of behind it
Sketch_move_to_in_front(self, loc) == <<MoveTo(loc)>> \o self

Sketch_move_to(self, loc) == Append(self, MoveTo(loc))
Sketch_rotate_around(self, point, angle) == Append(self, RotateAround(point, angle))
Sketch_scale(self, factor) == Append(self, Scale(factor))

Sketch_rotate(self, angle) ==
    LET rotate(c) == IF IsOk(c) THEN Sketch_rotate_around(self, c.v, angle) ELSE self
    IN  rotate(Sketch_center(self))

RECURSIVE circular_loop(_, _, _, _, _, _)
circular_loop(self, new_shape, angle, angle_step, around, k) ==
    IF k = 0 THEN new_shape
    ELSE circular_loop(self, Sketch_add(new_shape, Sketch_rotate_around(self, around, angle)),
                       RAdd(angle, angle_step), angle_step, around, k - 1)

\* the loop run once less, so that the last instance is missing
Sketch_circular_pattern_one_short(self, around, instances) ==
    IF instances = 0 THEN self
    ELSE circular_loop(self, self, RInt(0), Rat(360, instances), around, instances - 1)

\* with instances = 0 the step 360/0 is never used: the loop body does not run
Sketch_circular_pattern(self, around, instances) ==
    IF instances = 0 THEN self
    ELSE circular_loop(self, self, RInt(0), Rat(360, instances), around, instances)

\* Axis2D::point_at(pos) on the axis from start towards until, pos being
\* k * |start - until| / instances
RECURSIVE linear_loop(_, _, _, _, _, _)
linear_loop(self, new_part, start, until, instances, k) ==
    IF k > instances THEN new_part
    ELSE LET d  == Point2D_sub(until, start)
             at == Point2D(RAdd(start.x, RMul(d.x, Rat(k, instances))),
                           RAdd(start.y, RMul(d.y, Rat(k, instances))))
         IN  linear_loop(self, Sketch_add(new_part, Sketch_move_to(self, at)),
                         start, until, instances, k + 1)

\* the position advanced once before the first copy is placed
Sketch_linear_pattern_late_start(self, until, instances) ==
    LET pattern(c) ==
            IF ~IsOk(c) THEN self
            ELSE IF c.v = until THEN self
            ELSE IF instances = 0 THEN self
            ELSE linear_loop(self, self, c.v, until, instances, 2)
    IN  pattern(Sketch_center(self))

Sketch_linear_pattern(self, until, instances) ==
    LET pattern(c) ==
            IF ~IsOk(c) THEN self
            ELSE IF c.v = until THEN self
            ELSE IF instances = 0 THEN self
            ELSE linear_loop(self, self, c.v, until, instances, 1)
    IN  pattern(Sketch_center(self))

\* the kernel prism of a face along normal * thickness, as a solid: the
\* cells <<u, v, h + k>> of the plane frame, taken to global coordinates
FrameToGlobal(pl) ==
    LET ax == <<pl.x_axis, pl.y_axis, Plane_normal(pl)>>
    IN  [g \in 1 .. 3 |->
            LET j == CHOOSE j \in 1 .. 3 : ax[j][g] # 0
            IN  [from |-> j, pos |-> ax[j][g] = 1]]

CellToGlobal(c, m) ==
    <<IF m[1].pos THEN c[m[1].from] ELSE -c[m[1].from] - 1,
      IF m[2].pos THEN c[m[2].from] ELSE -c[m[2].from] - 1,
      IF m[3].pos THEN c[m[3].from] ELSE -c[m[3].from] - 1>>

MakePrism(face, pl, t) ==
    LET m == FrameToGlobal(pl)
    IN  {CellToGlobal(<<c[1], c[2], c[3][1] + k>>, m) :
            c \in face, k \in (IF t > 0 THEN 0 .. (t - 1) ELSE t .. -1)}

\* the thickness not tested against zero
Sketch_extrude_unchecked(self, plane, thickness) ==
    LET prism(shape) ==
            IF ~IsOk(shape) THEN shape
            ELSE IF \A c \in shape.v : RIsInt(c[3])
                 THEN Ok(Part_from_occt(MakePrism(shape.v, plane, thickness[1])))
                 ELSE OffGrid
    IN  prism(to_occt(self, plane))

Sketch_extrude(self, plane, thickness) ==
    IF RIsZero(thickness) THEN Err("EmptySketch")
    ELSE LET prism(shape) ==
                 IF ~IsOk(shape) THEN shape
                 ELSE IF \A c \in shape.v : RIsInt(c[3])
                      THEN Ok(Part_from_occt(MakePrism(shape.v, plane, thickness[1])))
                      ELSE OffGrid
         IN  prism(to_occt(self, plane))

\* d < v * 1e-7 for naturals d and v, that is d * 10^7 < v, computed without
\* leaving 32 bits
LessThanTol(d, v) == v > 0 /\ d <= (v - 1) \div 10000000

\* impl PartialEq for Sketch; the areas are compared in square metres, one
\* square metre being tpm * tpm cells
Sketch_eq(self, other) ==
    IF Sketch_center(self) # Sketch_center(other) THEN FALSE
    ELSE LET same_area(r) ==
                 IF IsOk(r)
                 THEN /\ LessThanTol(Abs(occt_area(r.v) - Sketch_area(self)), tpm * tpm)
                      /\ LessThanTol(Abs(occt_area(r.v) - Sketch_area(other)), tpm * tpm)
                 ELSE TRUE
         IN  same_area(to_occt(Sketch_intersect(self, other), Plane_xy))

(***************************************************************************)
(* Path, Rectangle, Circle                                                 *)
(***************************************************************************)
Path_at(start) == [cursor |-> start, edges |-> <<>>]
Path_start(self) == IF Len(self.edges) > 0 THEN Edge_start(self.edges[1]) ELSE self.cursor
Path_end(self) == IF Len(self.edges) > 0 THEN Edge_end(self.edges[Len(self.edges)]) ELSE self.cursor

Path_add_edge_stale_cursor(self, edge) ==
    IF Edge_start(edge) # Path_end(self) THEN Panic
    ELSE [cursor |-> self.cursor, edges |-> Append(self.edges, edge)]
Path_add_edge(self, edge) ==
    IF Edge_start(edge) # Path_end(self) THEN Panic
    ELSE [cursor |-> Edge_end(edge), edges |-> Append(self.edges, edge)]

Path_line_to(self, point) == Path_add_edge(self, Line(self.cursor, point))

\* Path::close: the chain is closed by a line back to its start and becomes
\* the seed action of a Sketch
Path_close(self) == Sketch_from_edges(Path_line_to(self, Path_start(self)).edges)

Rectangle_from_corners(corner1, corner2) ==
    IF corner1.x = corner2.x \/ corner1.y = corner2.y THEN Sketch_empty
    ELSE Path_close(
            Path_line_to(
                Path_line_to(
                    Path_line_to(Path_at(corner1), Point2D(corner2.x, corner1.y)),
                    corner2),
                Point2D(corner1.x, corner2.y)))

Rectangle_from_dim(x, y) ==
    Rectangle_from_corners(Point2D(RMul(x, Rat(-1, 2)), RMul(y, Rat(-1, 2))),
                           Point2D(RMul(x, Rat(1, 2)), RMul(y, Rat(1, 2))))

Circle_from_radius(radius) == Sketch_from_edges(<<Circle(Point2D_origin, radius)>>)

(***************************************************************************)
(* Kernel: rigid motions and scaling of solids                             *)
(***************************************************************************)
Axis(o, d) == [origin |-> o, direction |-> d]
Axis_y == Axis(Point3D_origin, <<0, 1, 0>>)
Axis_z == Axis(Point3D_origin, <<0, 0, 1>>)

\* one quarter turn (right-hand rule) about an axis parallel to +x, +y or +z
\* through the integral point o
QuarterTurn(c, o, d) ==
    IF d[3] = 1 THEN <<o[1] + o[2] - c[2] - 1, o[2] - o[1] + c[1], c[3]>>
    ELSE IF d[1] = 1 THEN <<c[1], o[2] + o[3] - c[3] - 1, o[3] - o[2] + c[2]>>
    ELSE <<o[1] - o[3] + c[3], c[2], o[3] + o[1] - c[1] - 1>>

RECURSIVE RotateSolidQ(_, _, _, _)
RotateSolidQ(S, o, d, q) ==
    IF q = 0 THEN S
    ELSE RotateSolidQ({QuarterTurn(c, o, d) : c \in S}, o, d, q - 1)

\* rotation by q quarter turns about an axis; a negative direction turns the
\* other way round
RotateSolid(S, axis, q) ==
    LET o == <<axis.origin.x[1], axis.origin.y[1], axis.origin.z[1]>>
        d == axis.direction
        neg == d[1] + d[2] + d[3] < 0
    IN  RotateSolidQ(S, o, <<Abs(d[1]), Abs(d[2]), Abs(d[3])>>, IF neg THEN (4 - q) % 4 ELSE q)

AxisOnGrid(axis) ==
    /\ RIsInt(axis.origin.x) /\ RIsInt(axis.origin.y) /\ RIsInt(axis.origin.z)
    /\ Abs(axis.direction[1]) + Abs(axis.direction[2]) + Abs(axis.direction[3]) = 1

\* uniform scaling by the natural factor f about the point piv
ScaleSolid(S, piv, f) ==
    LET o1 == RMul(RInt(1 - f), piv.x)[1]
        o2 == RMul(RInt(1 - f), piv.y)[1]
        o3 == RMul(RInt(1 - f), piv.z)[1]
    IN  {<<o1 + f * c[1] + i, o2 + f * c[2] + j, o3 + f * c[3] + k>> :
            c \in S, i \in 0 .. (f - 1), j \in 0 .. (f - 1), k \in 0 .. (f - 1)}

(***************************************************************************)
(* Part: the public operations                                             *)
(***************************************************************************)
RECURSIVE BitXor(_, _)
BitXor(a, b) ==
    IF a = 0 THEN b
    ELSE IF b = 0 THEN a
    ELSE 2 * BitXor(a \div 2, b \div 2) + (((a % 2) + (b % 2)) % 2)

\* fn round(x, n_digits), x a rational: `10 ^ n_digits` is the bitwise
\* exclusive or of the two u8 values
round(x, n_digits) ==
    Rat(RoundHalfAway(RMul(x, RInt(BitXor(10, n_digits)))), BitXor(10, n_digits))

\* Length::m() and Length::from_m() for a length held in ticks
Length_m(l) == RMul(l, Rat(1, tpm))
Length_from_m(m) == RMul(m, RInt(tpm))

Part_add(self, other) ==
    IF IsSome(self) /\ IsSome(other) THEN Part_from_occt(Fuse(self.v, other.v))
    ELSE IF IsSome(self) THEN self
    ELSE IF IsSome(other) THEN other
    ELSE self

Part_intersect(self, other) ==
    IF IsSome(self) /\ IsSome(other) THEN Part_from_occt(Common(self.v, other.v))
    ELSE None

Part_subtract(self, other) ==
    IF IsSome(self) /\ IsSome(other) THEN Part_from_occt(Cut(self.v, other.v))
    ELSE IF IsSome(self) THEN self
    ELSE None

\* in cells; one cell is 1/tpm^3 cubic metres
Part_volume(self) == IF IsSome(self) THEN Mass(self.v) ELSE 0

Part_center(self) ==
    IF IsSome(self)
    THEN LET centre_of_mass == SolidCentre(self.v)
         IN  Ok(Point3D(Length_from_m(round(Length_m(centre_of_mass.x), 9)),
                        Length_from_m(round(Length_m(centre_of_mass.y), 9)),
                        Length_from_m(round(Length_m(centre_of_mass.z), 9))))
    ELSE Err("EmptyPart")

Part_move_to(self, loc) ==
    IF IsSome(self)
    THEN LET move_vec == Point3D_sub(loc, Part_center(self).v)
         IN  IF RIsInt(move_vec.x) /\ RIsInt(move_vec.y) /\ RIsInt(move_vec.z)
             THEN Part_from_occt(TranslateSolid(self.v,
                                    <<move_vec.x[1], move_vec.y[1], move_vec.z[1]>>))
             ELSE OffGrid
    ELSE None

Part_rotate_around(self, axis, angle) ==
    IF IsSome(self)
    THEN IF IsQuarterTurn(angle) /\ AxisOnGrid(axis)
         THEN Part_from_occt(RotateSolid(self.v, axis, QuarterTurns(angle)))
         ELSE OffGrid
    ELSE None

Part_scale(self, factor) ==
    IF IsSome(self)
    THEN LET piv == Part_center(self).v
         IN  IF /\ factor >= 1
                /\ RIsInt(RMul(RInt(1 - factor), piv.x))
                /\ RIsInt(RMul(RInt(1 - factor), piv.y))
                /\ RIsInt(RMul(RInt(1 - factor), piv.z))
             THEN Part_from_occt(ScaleSolid(self.v, piv, factor))
             ELSE OffGrid
    ELSE None

RECURSIVE part_circular_loop(_, _, _, _, _, _)
part_circular_loop(self, new_shape, angle, angle_step, around, k) ==
    IF k = 0 \/ IsOffGrid(new_shape) THEN new_shape
    ELSE LET r == Part_rotate_around(self, around, angle)
         IN  IF IsOffGrid(r) THEN OffGrid
             ELSE part_circular_loop(self, Part_add(new_shape, r),
                                     RAdd(angle, angle_step), angle_step, around, k - 1)

Part_circular_pattern(self, around, instances) ==
    IF instances = 0 THEN self
    ELSE part_circular_loop(self, self, RInt(0), Rat(360, instances), around, instances)

\* impl Clone for Part: the kernel shape is copied
\* gp_Trsf::SetScale(pivot, factor): the map p |-> offset + factor * p with
\* offset = (1 - factor) * pivot, in ticks
SetScale(piv, factor) ==
    [offset |-> Point3D(RMul(RInt(1 - factor), piv.x),
                        RMul(RInt(1 - factor), piv.y),
                        RMul(RInt(1 - factor), piv.z)),
     factor |-> factor]
IdentityTransform == [offset |-> Point3D_origin, factor |-> 1]

\* the kernel shape that is the image of the solid S under the transform t;
\* its cells are not enumerated
Transformed(S, t) == [solid |-> S, transform |-> t]
TransformedCentre(sh) ==
    Point3D_add(sh.transform.offset,
                Point3D(RMul(RInt(sh.transform.factor), SolidCentre(sh.solid).x),
                        RMul(RInt(sh.transform.factor), SolidCentre(sh.solid).y),
                        RMul(RInt(sh.transform.factor), SolidCentre(sh.solid).z)))
\* the edge length of the image of one grid cell, in ticks
TransformedCellSize(sh) == sh.transform.factor

\* Part::scale with the result kept as the transform of the receiver's shape
Part_scale_transform(self, factor) ==
    IF IsSome(self)
    THEN Some(Transformed(self.v, SetScale(Part_center(self).v, factor)))
    ELSE None

\* Error::StepWrite(path), Error::StlWrite(path)
ErrPath(e, path) == [k |-> "Err", e |-> e, path |-> path]
RetDone == "IFSelect_RetDone"
RetFail == "IFSelect_RetFail"
StepFile(shape) == [k |-> "Step", shape |-> shape]
StlFile(shape) == [k |-> "Stl", shape |-> shape]
\* what a failed kernel writer may leave at the path
Partial == [k |-> "Partial"]

\* the empty Part written as an empty file and reported as success
Part_write_step_unchecked(self, path, transfer, status, left) ==
    LET scaled == Part_scale_transform(self, 1000)
    IN  IF IsSome(scaled) /\ transfer # RetDone
        THEN [ret |-> ErrPath("StepWrite", path), file |-> None]
        ELSE IF IsSome(scaled) /\ status # RetDone
        THEN [ret |-> ErrPath("StepWrite", path), file |-> Some(left)]
        ELSE [ret |-> Ok(<<>>), file |-> Some(StepFile(scaled))]

\* Part::write_step; transfer and status are the kernel's two return codes,
\* left is what a failed write leaves at the path.  file is what the call
\* puts at the path (None: the path is not touched)
Part_write_step(self, path, transfer, status, left) ==
    LET scaled == Part_scale_transform(self, 1000)
    IN  IF IsSome(scaled)
        THEN IF transfer # RetDone
             THEN [ret |-> ErrPath("StepWrite", path), file |-> None]
             ELSE IF status # RetDone
             THEN [ret |-> ErrPath("StepWrite", path), file |-> Some(left)]
             ELSE [ret |-> Ok(<<>>), file |-> Some(StepFile(scaled.v))]
        ELSE [ret |-> Err("EmptyPart"), file |-> None]

\* Part::write_stl; success is the kernel writer's return value
Part_write_stl(self, path, success, left) ==
    IF IsSome(self)
    THEN IF success
         THEN [ret |-> Ok(<<>>), file |-> Some(StlFile(Transformed(self.v, IdentityTransform)))]
         ELSE [ret |-> ErrPath("StlWrite", path), file |-> Some(left)]
    ELSE [ret |-> Err("EmptyPart"), file |-> None]

\* Part::stl; temp is the path of the NamedTempFile, readable whether the
\* file can be opened and read back
Part_stl(self, temp, success, readable) ==
    IF IsSome(self)
    THEN LET written == Part_write_stl(self, temp, success, Partial)
         IN  IF IsErr(written.ret) THEN written.ret
             ELSE IF ~readable THEN ErrPath("StlWrite", temp)
             ELSE Ok(written.file.v)
    ELSE Err("EmptyPart")
Part_clone(self) == IF IsSome(self) THEN Part_from_occt(self.v) ELSE None

\* the intersection compared with the volume of self only
Part_eq_one_sided(self, other) ==
    IF IsSome(self) /\ IsSome(other)
    THEN LET intersection == Part_intersect(self, other)
         IN  LessThanTol(Abs(Part_volume(intersection) - Part_volume(self)),
                         Part_volume(intersection))
    ELSE IsNone(self) /\ IsNone(other)

\* impl PartialEq for Part
Part_eq(self, other) ==
    IF IsSome(self) /\ IsSome(other)
    THEN LET intersection == Part_intersect(self, other)
         IN  /\ LessThanTol(Abs(Part_volume(intersection) - Part_volume(self)),
                            Part_volume(intersection))
             /\ LessThanTol(Abs(Part_volume(intersection) - Part_volume(other)),
                            Part_volume(intersection))
    ELSE IsNone(self) /\ IsNone(other)

is_zero_all(lengths) == \A i \in 1 .. Len(lengths) : RIsZero(lengths[i])
\* fn is_zero: true if any length of the array is zero
is_zero(lengths) == \E i \in 1 .. Len(lengths) : RIsZero(lengths[i])

MakeBox(min, dx, dy, dz) ==
    {<<min[1] + i, min[2] + j, min[3] + k>> :
        i \in 0 .. (dx - 1), j \in 0 .. (dy - 1), k \in 0 .. (dz - 1)}

Cuboid_from_corners(corner1, corner2) ==
    IF is_zero(<<RSub(corner1.x, corner2.x), RSub(corner1.y, corner2.y),
                 RSub(corner1.z, corner2.z)>>)
    THEN Part_empty
    ELSE LET min_x == Min(corner1.x[1], corner2.x[1])
             min_y == Min(corner1.y[1], corner2.y[1])
             min_z == Min(corner1.z[1], corner2.z[1])
             max_x == Max(corner1.x[1], corner2.x[1])
             max_y == Max(corner1.y[1], corner2.y[1])
             max_z == Max(corner1.z[1], corner2.z[1])
         IN  Part_from_occt(MakeBox(<<min_x, min_y, min_z>>,
                                    max_x - min_x, max_y - min_y, max_z - min_z))

Cuboid_from_dim(x, y, z) ==
    Cuboid_from_corners(Point3D(RMul(x, Rat(-1, 2)), RMul(y, Rat(-1, 2)), RMul(z, Rat(-1, 2))),
                        Point3D(RMul(x, Rat(1, 2)), RMul(y, Rat(1, 2)), RMul(z, Rat(1, 2))))

\* BRepPrimAPI_MakeSphere: the cells whose centre is inside the ball of the
\* given radius around the origin
MakeSphere(radius) ==
    {c \in (-radius .. radius - 1) \X (-radius .. radius - 1) \X (-radius .. radius - 1) :
        (2 * c[1] + 1) * (2 * c[1] + 1) + (2 * c[2] + 1) * (2 * c[2] + 1)
          + (2 * c[3] + 1) * (2 * c[3] + 1) < 4 * radius * radius}

\* BRepPrimAPI_MakeCylinder on the axis +z through <<0, 0, base>>
MakeCylinder(base, radius, height) ==
    {c \in (-radius .. radius - 1) \X (-radius .. radius - 1) \X (base .. base + height - 1) :
        (2 * c[1] + 1) * (2 * c[1] + 1) + (2 * c[2] + 1) * (2 * c[2] + 1) < 4 * radius * radius}

Sphere_from_radius(radius) ==
    IF is_zero(<<radius>>) THEN Part_empty
    ELSE Part_from_occt(MakeSphere(radius[1]))

Sphere_from_diameter(diameter) == Sphere_from_radius(RMul(diameter, Rat(1, 2)))

\* Part::from_part: the Part that holds the kernel shape
Part_from_part(shape) == Some(shape)

Cylinder_from_radius(radius, height) ==
    IF is_zero(<<radius, height>>) THEN Part_empty
    ELSE Part_from_part(MakeCylinder(RMul(height, Rat(-1, 2))[1], radius[1], height[1]))

Cylinder_from_diameter(diameter, height) ==
    Cylinder_from_radius(RMul(diameter, Rat(1, 2)), height)

(***************************************************************************)
(* Inputs                                                                  *)
(***************************************************************************)
\* 6 ticks per metre: decimetre-sized cells; 12000: sub-millimetre cells
Scales == {6, 12000}
\* the scale of the example of linear_pattern: 10 ticks per metre
DocScale == 10

RectC == Rectangle_from_corners(P2(-1, -1), P2(1, 1))
RectB == Rectangle_from_corners(P2(1, -1), P2(3, 1))
Disc == Circle_from_radius(RInt(2))
SketchPrims == {Sketch_empty, RectC, RectB, Disc}
\* on the fine grid, where a cell is far smaller than 1e-7 square metres, the
\* two sketches around the origin
SmallPrims == {RectC, Disc}
\* Rectangle::from_m(1., 1.) at DocScale
Square1m == Rectangle_from_dim(RInt(DocScale), RInt(DocScale))

MovePoints == {P2(2, 0)}
Pivots == {Point2D_origin}
Angles == {RInt(90)}
Factors == {2}
Instances == {0, 2}
CircularInstances == {0, 1, 4}
Untils == {P2(4, 0)}
\* linear_pattern(until, instances); at DocScale linear_pattern(&point!(4 m, 0 m), 5)
LinearInputs ==
    IF tpm = DocScale THEN {<<P2(4 * DocScale, 0), 5>>} ELSE Untils \X Instances
ExtrudeInputs == {<<Plane_xy, RInt(0)>>, <<Plane_xy, RInt(2)>>, <<Plane_xz, RInt(-1)>>}

\* the evaluation of a log stays on the grid (the planes used share their
\* origin, so that a log leaves the grid on all of them or on none)
OnGrid(log) == ~IsOffGrid(to_occt(log, Plane_xy))

(***************************************************************************)
(* The sketch builder: sketch 1 is transformed and measured, and both      *)
(* sketches are combined with each other                                   *)
(***************************************************************************)
SketchInit ==
    /\ tpm \in Scales
    /\ sk \in [1 .. 2 -> IF tpm = 6 THEN SketchPrims ELSE SmallPrims]
    /\ part = <<Part_empty, Part_empty>>
    /\ op = "new"
    /\ recv = None
    /\ arg = None
    /\ ret = None
    /\ steps = 0
    /\ files = NoFiles

\* the measurements; a construction ends with at most one of them
QueryOps == {"to_occt", "is_empty", "area", "center", "extrude", "eq"}

\* sketch i becomes the sketch new, built by operation name from sk[i]
Build(i, name, a, new) ==
    /\ op \notin QueryOps
    /\ steps < MaxSteps
    /\ OnGrid(new)
    /\ sk' = [sk EXCEPT ![i] = new]
    /\ op' = name
    /\ recv' = sk[i]
    /\ arg' = a
    /\ ret' = new
    /\ steps' = steps + 1
    /\ UNCHANGED <<files, tpm, part>>

\* a measurement of sketch 1: nothing but the record of the call changes
Query(name, a, r) ==
    /\ op \notin QueryOps
    /\ op' = name
    /\ recv' = sk[1]
    /\ arg' = a
    /\ ret' = r
    /\ UNCHANGED <<files, tpm, sk, part, steps>>

SkAdd == \E i \in 1 .. 2 : Build(i, "add", sk[3 - i], Sketch_add(sk[i], sk[3 - i]))
SkIntersect == \E i \in 1 .. 2 : Build(i, "intersect", sk[3 - i], Sketch_intersect(sk[i], sk[3 - i]))
SkSubtract == \E i \in 1 .. 2 : Build(i, "subtract", sk[3 - i], Sketch_subtract(sk[i], sk[3 - i]))
SkMoveTo == \E p \in MovePoints : Build(1, "move_to", p, Sketch_move_to(sk[1], p))
SkRotateAround ==
    \E p \in Pivots, a \in Angles :
        Build(1, "rotate_around", <<p, a>>, Sketch_rotate_around(sk[1], p, a))
SkRotate == \E a \in Angles : Build(1, "rotate", a, Sketch_rotate(sk[1], a))
SkScale == \E f \in Factors : Build(1, "scale", f, Sketch_scale(sk[1], f))
SkCircularPattern ==
    \E p \in Pivots, n \in CircularInstances :
        Build(1, "circular_pattern", <<p, n>>, Sketch_circular_pattern(sk[1], p, n))
SkLinearPattern ==
    \E in \in LinearInputs :
        Build(1, "linear_pattern", in, Sketch_linear_pattern(sk[1], in[1], in[2]))

SkToOcct == Query("to_occt", Plane_xy, to_occt(sk[1], Plane_xy))
SkIsEmpty == Query("is_empty", None, Sketch_is_empty(sk[1]))
SkArea == Query("area", None, Sketch_area(sk[1]))
SkCenter == Query("center", None, Sketch_center(sk[1]))
SkExtrude ==
    \E in \in ExtrudeInputs :
        LET measure(r) == ~IsOffGrid(r) /\ Query("extrude", in, r)
        IN  measure(Sketch_extrude(sk[1], in[1], in[2]))
SkEq == Query("eq", sk[2], Sketch_eq(sk[1], sk[2]))

SketchNext ==
    \/ SkAdd \/ SkIntersect \/ SkSubtract \/ SkMoveTo \/ SkRotateAround \/ SkRotate
    \/ SkScale \/ SkCircularPattern \/ SkLinearPattern
    \/ SkToOcct \/ SkIsEmpty \/ SkArea \/ SkCenter \/ SkExtrude \/ SkEq

Spec == SketchInit /\ [][SketchNext]_vars

(***************************************************************************)
(* The part builder: part 1 is transformed and measured, and both parts    *)
(* are combined with each other                                            *)
(***************************************************************************)
CubeC == Cuboid_from_corners(P3(-1, -1, -1), P3(1, 1, 1))
CubeB == Cuboid_from_corners(P3(3, 1, 1), P3(1, -1, -1))
CubeU == Cuboid_from_corners(P3(1, 0, 0), P3(2, 1, 2))
PartPrims == {Part_empty, CubeC, CubeB, CubeU}

PartMovePoints == {P3(3, 0, 0), P3(6, 6, 6)}
PartAxes == {Axis_z, Axis_y}

PartInit ==
    /\ tpm \in Scales
    /\ part \in [1 .. 2 -> PartPrims]
    /\ sk = <<Sketch_empty, Sketch_empty>>
    /\ op = "new"
    /\ recv = None
    /\ arg = None
    /\ ret = None
    /\ steps = 0
    /\ files = NoFiles

PartQueryOps == {"volume", "center", "eq"}

\* the kernel handle shared instead of copied: every Part that holds the
\* shape of part i follows the operation
PartBuild_shared_handle(i, name, a, new) ==
    /\ op \notin PartQueryOps
    /\ steps < MaxPartSteps
    /\ ~IsOffGrid(new)
    /\ part' = [j \in 1 .. 2 |-> IF j = i \/ part[j] = part[i] THEN new ELSE part[j]]
    /\ op' = name
    /\ recv' = part[i]
    /\ arg' = a
    /\ ret' = new
    /\ steps' = steps + 1
    /\ UNCHANGED <<files, tpm, sk>>

\* part i becomes the part new, built by operation name from part[i]
PartBuild(i, name, a, new) ==
    /\ op \notin PartQueryOps
    /\ steps < MaxPartSteps
    /\ ~IsOffGrid(new)
    /\ part' = [part EXCEPT ![i] = new]
    /\ op' = name
    /\ recv' = part[i]
    /\ arg' = a
    /\ ret' = new
    /\ steps' = steps + 1
    /\ UNCHANGED <<files, tpm, sk>>

\* a measurement of part 1
PartQuery(name, a, r) ==
    /\ op \notin PartQueryOps
    /\ op' = name
    /\ recv' = part[1]
    /\ arg' = a
    /\ ret' = r
    /\ UNCHANGED <<files, tpm, sk, part, steps>>

\* the operand of a boolean operation on part i: the other part, the part
\* itself, or a fresh Part::empty()
PartOperands(i) == {part[3 - i], part[i], Part_empty}

PtAdd == \E i \in 1 .. 2 : \E o \in PartOperands(i) : PartBuild(i, "add", o, Part_add(part[i], o))
PtIntersect ==
    \E i \in 1 .. 2 : \E o \in PartOperands(i) :
        PartBuild(i, "intersect", o, Part_intersect(part[i], o))
PtSubtract ==
    \E i \in 1 .. 2 : \E o \in PartOperands(i) :
        PartBuild(i, "subtract", o, Part_subtract(part[i], o))
PtMoveTo == \E p \in PartMovePoints : PartBuild(1, "move_to", p, Part_move_to(part[1], p))
PtRotateAround ==
    \E ax \in PartAxes, a \in Angles :
        PartBuild(1, "rotate_around", <<ax, a>>, Part_rotate_around(part[1], ax, a))
PtScale == \E f \in Factors : PartBuild(1, "scale", f, Part_scale(part[1], f))
PtCircularPattern ==
    \E ax \in PartAxes, n \in CircularInstances :
        PartBuild(1, "circular_pattern", <<ax, n>>, Part_circular_pattern(part[1], ax, n))
PtClone == PartBuild(2, "clone", part[1], Part_clone(part[1]))

PtVolume == PartQuery("volume", None, Part_volume(part[1]))
PtCenter == PartQuery("center", None, Part_center(part[1]))
PtEq == PartQuery("eq", part[2], Part_eq(part[1], part[2]))

PartNext ==
    \/ PtAdd \/ PtIntersect \/ PtSubtract \/ PtMoveTo \/ PtRotateAround \/ PtScale
    \/ PtCircularPattern \/ PtClone
    \/ PtVolume \/ PtCenter \/ PtEq

PartSpec == PartInit /\ [][PartNext]_vars

(***************************************************************************)
(* The circular patterns of both builders: a sketch or a part is placed    *)
(* and then repeated around a point or an axis                             *)
(***************************************************************************)
PatternNext ==
    \/ SkMoveTo \/ SkRotateAround \/ SkCircularPattern
    \/ PtMoveTo \/ PtRotateAround \/ PtCircularPattern

PatternSpec == (SketchInit \/ PartInit) /\ [][PatternNext]_vars

(***************************************************************************)
(* The linear patterns: a sketch is placed or combined and then repeated   *)
(* along a line; on the grid of 10 ticks per metre the sketch is the 1 m   *)
(* square of the example in the documentation of linear_pattern            *)
(***************************************************************************)
LinearInit ==
    /\ tpm \in {6, DocScale}
    /\ sk \in [1 .. 2 -> IF tpm = DocScale THEN {Square1m} ELSE SketchPrims]
    /\ part = <<Part_empty, Part_empty>>
    /\ op = "new"
    /\ recv = None
    /\ arg = None
    /\ ret = None
    /\ steps = 0
    /\ files = NoFiles

LinearNext == SkAdd \/ SkSubtract \/ SkMoveTo \/ SkRotateAround \/ SkLinearPattern

LinearSpec == LinearInit /\ [][LinearNext]_vars

(***************************************************************************)
(* The path builder: a Path is started at a point and extended by lines;   *)
(* sk[1] is the path under construction, sk[2] the path Path::at returned, *)
(* which the caller still holds                                            *)
(***************************************************************************)
MaxPathLen == 3

PathPoints == {P2(0, 0), P2(2, 0), P2(2, 1), P2(-1, 3)}

PathInit ==
    /\ tpm = 1
    /\ sk = <<None, None>>
    /\ part = <<Part_empty, Part_empty>>
    /\ op = "new"
    /\ recv = None
    /\ arg = None
    /\ ret = None
    /\ steps = 0
    /\ files = NoFiles

PathAt ==
    \E start \in PathPoints :
        /\ op = "new"
        /\ sk' = <<Path_at(start), Path_at(start)>>
        /\ op' = "at"
        /\ recv' = None
        /\ arg' = start
        /\ ret' = Path_at(start)
        /\ UNCHANGED <<files, tpm, part, steps>>

PathLineTo ==
    \E point \in PathPoints :
        /\ op # "new"
        /\ sk[1] # Panic
        /\ steps < MaxPathLen
        /\ sk' = [sk EXCEPT ![1] = Path_line_to(sk[1], point)]
        /\ op' = "line_to"
        /\ recv' = sk[1]
        /\ arg' = point
        /\ ret' = Path_line_to(sk[1], point)
        /\ steps' = steps + 1
        /\ UNCHANGED <<files, tpm, part>>

PathQuery(name, r) ==
    /\ op # "new"
    /\ sk[1] # Panic
    /\ op' = name
    /\ recv' = sk[1]
    /\ arg' = None
    /\ ret' = r
    /\ UNCHANGED <<files, tpm, sk, part, steps>>

PathStart == PathQuery("start", Path_start(sk[1]))
PathEnd == PathQuery("end", Path_end(sk[1]))

PathNext == PathAt \/ PathLineTo \/ PathStart \/ PathEnd

PathSpec == PathInit /\ [][PathNext]_vars
(***************************************************************************)
(* The plane constructors: ret holds what the last call returned, the      *)
(* Result of Plane::new or the Plane of xy / xz / yz, and normal() is      *)
(* called on a Plane that was returned                                     *)
(***************************************************************************)
RVec(a, b, c) == <<RInt(a), RInt(b), RInt(c)>>

\* 5e-10: half of the tolerance of Plane::new
HalfTol == Rat(1, 2000000000)

PlaneOrigins == {Point3D_origin, P3(1, 2, 3), P3(0, 0, -1)}
PlaneXAxes == {RVec(1, 0, 0), RVec(2, 0, 0), RVec(0, 0, 0), RVec(3, 4, 0), RVec(0, 0, 2)}
PlaneYAxes ==
    {RVec(0, 1, 0), RVec(0, 2, 0), RVec(-1, 0, 0), RVec(0, 0, 0), RVec(-4, 3, 0),
     RVec(3, 4, 0), RVec(0, 0, 3), <<HalfTol, RInt(0), RInt(0)>>}

PlaneInit ==
    /\ tpm = 1
    /\ sk = <<Sketch_empty, Sketch_empty>>
    /\ part = <<Part_empty, Part_empty>>
    /\ op = "start"
    /\ recv = None
    /\ arg = None
    /\ ret = None
    /\ steps = 0
    /\ files = NoFiles

PlaneCall(name, a, r) ==
    /\ op' = name
    /\ recv' = None
    /\ arg' = a
    /\ ret' = r
    /\ UNCHANGED <<files, tpm, sk, part, steps>>

PlaneNew ==
    \E origin \in PlaneOrigins, x_axis \in PlaneXAxes, y_axis \in PlaneYAxes :
        PlaneCall("new", <<origin, x_axis, y_axis>>, Plane_new(origin, x_axis, y_axis))

PlaneXy ==
    PlaneCall("xy", None, Plane_expect(Plane_new(Point3D_origin, RVec(1, 0, 0), RVec(0, 1, 0))))
PlaneXz ==
    PlaneCall("xz", None, Plane_expect(Plane_new(Point3D_origin, RVec(1, 0, 0), RVec(0, 0, 1))))
PlaneYz ==
    PlaneCall("yz", None, Plane_expect(Plane_new(Point3D_origin, RVec(0, 1, 0), RVec(0, 0, 1))))

\* self.normal() on the Plane that the last constructor returned
PlaneNormal ==
    \/ /\ op = "new"
       /\ IsOk(ret)
       /\ op' = "normal"
       /\ recv' = ret.v
       /\ arg' = None
       /\ ret' = Plane_normal_rational(ret.v)
       /\ UNCHANGED <<files, tpm, sk, part, steps>>
    \/ /\ op \in {"xy", "xz", "yz"}
       /\ ret # Panic
       /\ op' = "normal"
       /\ recv' = ret
       /\ arg' = None
       /\ ret' = Plane_normal_rational(ret)
       /\ UNCHANGED <<files, tpm, sk, part, steps>>

PlaneNext == PlaneNew \/ PlaneXy \/ PlaneXz \/ PlaneYz \/ PlaneNormal

PlaneSpec == PlaneInit /\ [][PlaneNext]_vars
(***************************************************************************)
(* The primitive constructors: one primitive solid is built into part[1]   *)
(* or one primitive sketch into sk[1], and is then measured                *)
(***************************************************************************)
PrimDims == {RInt(0), RInt(2), RInt(-2), RInt(4)}
PrimCorners == {P3(0, 0, 0), P3(1, 2, 3), P3(1, 0, -1), P3(-1, 2, 0)}
PrimRadii == {RInt(0), RInt(1), RInt(2)}
PrimDiameters == {RInt(0), RInt(2), RInt(4)}
PrimHeights == {RInt(0), RInt(2), RInt(4)}
PrimCorners2D == {P2(0, 0), P2(2, 1), P2(2, -1), P2(-1, 1), P2(0, 3)}

\* edge lists with and without edges of length zero
PrimEdges ==
    {<<>>,
     <<Line(P2(1, 1), P2(1, 1))>>,
     <<Circle(P2(1, 1), RInt(0)), Line(P2(0, 0), P2(0, 0))>>,
     <<Circle(P2(0, 0), RInt(2)), Circle(P2(1, 1), RInt(0))>>,
     <<Line(P2(0, 0), P2(2, 0)), Line(P2(2, 0), P2(2, 1)),
       Line(P2(2, 1), P2(0, 1)), Line(P2(0, 1), P2(0, 0))>>,
     <<Line(P2(0, 0), P2(2, 0)), Line(P2(2, 0), P2(2, 0)), Line(P2(2, 0), P2(2, 1)),
       Line(P2(2, 1), P2(0, 1)), Circle(P2(0, 1), RInt(0)), Line(P2(0, 1), P2(0, 0))>>}

SolidOps ==
    {"Cuboid::from_dim", "Cuboid::from_corners", "Sphere::from_radius",
     "Sphere::from_diameter", "Cylinder::from_radius", "Cylinder::from_diameter"}
FlatOps ==
    {"Circle::from_radius", "Rectangle::from_corners", "Rectangle::from_dim",
     "Sketch::from_edges"}

PrimInit ==
    /\ tpm = 2
    /\ sk = <<Sketch_empty, Sketch_empty>>
    /\ part = <<Part_empty, Part_empty>>
    /\ op = "new"
    /\ recv = None
    /\ arg = None
    /\ ret = None
    /\ steps = 0
    /\ files = NoFiles

Solid(name, a, new) ==
    /\ op = "new"
    /\ part' = [part EXCEPT ![1] = new]
    /\ op' = name
    /\ recv' = None
    /\ arg' = a
    /\ ret' = new
    /\ UNCHANGED <<files, tpm, sk, steps>>

Flat(name, a, new) ==
    /\ op = "new"
    /\ sk' = [sk EXCEPT ![1] = new]
    /\ op' = name
    /\ recv' = None
    /\ arg' = a
    /\ ret' = new
    /\ UNCHANGED <<files, tpm, part, steps>>

CuboidFromDim ==
    \E x \in PrimDims, y \in PrimDims, z \in PrimDims :
        Solid("Cuboid::from_dim", <<x, y, z>>, Cuboid_from_dim(x, y, z))
CuboidFromCorners ==
    \E corner1 \in PrimCorners, corner2 \in PrimCorners :
        Solid("Cuboid::from_corners", <<corner1, corner2>>, Cuboid_from_corners(corner1, corner2))
SphereFromRadius ==
    \E radius \in PrimRadii : Solid("Sphere::from_radius", <<radius>>, Sphere_from_radius(radius))
SphereFromDiameter ==
    \E diameter \in PrimDiameters :
        Solid("Sphere::from_diameter", <<diameter>>, Sphere_from_diameter(diameter))
CylinderFromRadius ==
    \E radius \in PrimRadii, height \in PrimHeights :
        Solid("Cylinder::from_radius", <<radius, height>>, Cylinder_from_radius(radius, height))
CylinderFromDiameter ==
    \E diameter \in PrimDiameters, height \in PrimHeights :
        Solid("Cylinder::from_diameter", <<diameter, height>>,
              Cylinder_from_diameter(diameter, height))

CircleFromRadius ==
    \E radius \in PrimRadii : Flat("Circle::from_radius", <<radius>>, Circle_from_radius(radius))
RectangleFromCorners ==
    \E corner1 \in PrimCorners2D, corner2 \in PrimCorners2D :
        Flat("Rectangle::from_corners", <<corner1, corner2>>,
             Rectangle_from_corners(corner1, corner2))
RectangleFromDim ==
    \E x \in PrimDims, y \in PrimDims :
        Flat("Rectangle::from_dim", <<x, y>>, Rectangle_from_dim(x, y))
SketchFromEdges ==
    \E edges \in PrimEdges : Flat("Sketch::from_edges", <<edges>>, Sketch_from_edges(edges))

\* a measurement of the primitive that was built
Measure(built, name, receiver, r) ==
    /\ op \in built
    /\ op' = name
    /\ recv' = receiver
    /\ arg' = arg
    /\ ret' = r
    /\ UNCHANGED <<files, tpm, sk, part, steps>>

\* part == Part::empty()
PrimPartEq == Measure(SolidOps, "Part::eq", part[1], Part_eq(part[1], Part_empty))
PrimPartVolume == Measure(SolidOps, "Part::volume", part[1], Part_volume(part[1]))
\* sketch == Sketch::empty()
PrimSketchEq == Measure(FlatOps, "Sketch::eq", sk[1], Sketch_eq(sk[1], Sketch_empty))
PrimSketchToOcct == Measure(FlatOps, "Sketch::to_occt", sk[1], to_occt(sk[1], Plane_xy))
PrimSketchIsEmpty == Measure(FlatOps, "Sketch::is_empty", sk[1], Sketch_is_empty(sk[1]))

PrimNext ==
    \/ CuboidFromDim \/ CuboidFromCorners \/ SphereFromRadius \/ SphereFromDiameter
    \/ CylinderFromRadius \/ CylinderFromDiameter
    \/ CircleFromRadius \/ RectangleFromCorners \/ RectangleFromDim \/ SketchFromEdges
    \/ PrimPartEq \/ PrimPartVolume \/ PrimSketchEq \/ PrimSketchToOcct \/ PrimSketchIsEmpty

PrimSpec == PrimInit /\ [][PrimNext]_vars

(***************************************************************************)
(* The exports: the parts are measured and written to the paths            *)
(***************************************************************************)
MaxExports == 2
TempPath == "tmp"
ExportParts == PartPrims \cup {Part_intersect(CubeU, CubeC)}
ReturnStatus == {RetDone, RetFail}
ExportOps == {"write_step", "write_stl", "stl"}

ExportInit ==
    /\ tpm \in Scales
    /\ part \in [1 .. 2 -> ExportParts]
    /\ sk = <<Sketch_empty, Sketch_empty>>
    /\ op = "new"
    /\ recv = None
    /\ arg = None
    /\ ret = None
    /\ steps = 0
    /\ files = NoFiles

\* an export of a part to the path: a names the path and what the kernel
\* answered, out is the result and what the call put at the path
Export(self, name, a, out) ==
    /\ steps < MaxExports
    /\ op' = name
    /\ recv' = self
    /\ arg' = a
    /\ ret' = out.ret
    /\ files' = IF IsSome(out.file) THEN [files EXCEPT ![a.path] = out.file.v] ELSE files
    /\ steps' = steps + 1
    /\ UNCHANGED <<tpm, sk, part>>

ExWriteStep ==
    \E i \in 1 .. 2, path \in Paths, transfer \in ReturnStatus, status \in ReturnStatus :
        \E left \in {files[path], Partial} :
            Export(part[i], "write_step",
                   [path |-> path, done |-> transfer = RetDone /\ status = RetDone],
                   Part_write_step(part[i], path, transfer, status, left))

ExWriteStl ==
    \E i \in 1 .. 2, path \in Paths, success \in BOOLEAN :
        \E left \in {files[path], Partial} :
            Export(part[i], "write_stl", [path |-> path, done |-> success],
                   Part_write_stl(part[i], path, success, left))

\* the temporary file is removed when stl() returns
ExStl ==
    \E i \in 1 .. 2, success \in BOOLEAN, readable \in BOOLEAN :
        Export(part[i], "stl", [path |-> TempPath, done |-> success /\ readable],
               [ret |-> Part_stl(part[i], TempPath, success, readable), file |-> None])

ExMeasure(self, name, r) ==
    /\ steps < MaxExports
    /\ op' = name
    /\ recv' = self
    /\ arg' = None
    /\ ret' = r
    /\ steps' = steps + 1
    /\ UNCHANGED <<files, tpm, sk, part>>

ExVolume == \E i \in 1 .. 2 : ExMeasure(part[i], "volume", Part_volume(part[i]))
ExCenter == \E i \in 1 .. 2 : ExMeasure(part[i], "center", Part_center(part[i]))

ExportNext == ExWriteStep \/ ExWriteStl \/ ExStl \/ ExVolume \/ ExCenter

ExportSpec == ExportInit /\ [][ExportNext]_vars

(***************************************************************************)
(* Chains of boolean combinators over three sketches a, b, c: recv is the  *)
(* chain grouped to the left, arg the chain grouped to the right           *)
(***************************************************************************)
ChainInit ==
    /\ tpm = 6
    /\ sk \in [1 .. 3 -> SketchPrims]
    /\ part = <<Part_empty, Part_empty>>
    /\ op = "new"
    /\ recv = None
    /\ arg = None
    /\ ret = None
    /\ steps = 0
    /\ files = NoFiles

Chain(name, left, right) ==
    /\ op = "new"
    /\ op' = name
    /\ recv' = left
    /\ arg' = right
    /\ ret' = Sketch_eq(left, right)
    /\ steps' = steps + 1
    /\ UNCHANGED <<files, tpm, sk, part>>

ChainAdd ==
    Chain("add", Sketch_add(Sketch_add(sk[1], sk[2]), sk[3]),
                 Sketch_add(sk[1], Sketch_add(sk[2], sk[3])))
ChainIntersect ==
    Chain("intersect", Sketch_intersect(Sketch_intersect(sk[1], sk[2]), sk[3]),
                       Sketch_intersect(sk[1], Sketch_intersect(sk[2], sk[3])))
ChainSubtract ==
    Chain("subtract", Sketch_subtract(Sketch_subtract(sk[1], sk[2]), sk[3]),
                      Sketch_subtract(sk[1], Sketch_subtract(sk[2], sk[3])))
\* a.subtract(&b).subtract(&c) against a.subtract(&b.add(&c))
ChainSubtractSum ==
    Chain("subtract_sum", Sketch_subtract(Sketch_subtract(sk[1], sk[2]), sk[3]),
                          Sketch_subtract(sk[1], Sketch_add(sk[2], sk[3])))

ChainNext == ChainAdd \/ ChainIntersect \/ ChainSubtract \/ ChainSubtractSum

ChainSpec == ChainInit /\ [][ChainNext]_vars

(***************************************************************************)
(* Sequences of transformations: sketch 1 is moved, rotated, scaled and    *)
(* combined with sketch 2, several times in a row                          *)
(***************************************************************************)
MaxTransforms == 2
TransformMovePoints == {P2(2, 0), P2(-2, 0)}

TransformInit ==
    /\ tpm = 6
    /\ sk \in [1 .. 2 -> SketchPrims]
    /\ part = <<Part_empty, Part_empty>>
    /\ op = "new"
    /\ recv = None
    /\ arg = None
    /\ ret = None
    /\ steps = 0
    /\ files = NoFiles

Transform(name, a, new) ==
    /\ steps < MaxTransforms
    /\ OnGrid(new)
    /\ sk' = [sk EXCEPT ![1] = new]
    /\ op' = name
    /\ recv' = sk[1]
    /\ arg' = a
    /\ ret' = new
    /\ steps' = steps + 1
    /\ UNCHANGED <<files, tpm, part>>

TrMoveTo == \E p \in TransformMovePoints : Transform("move_to", p, Sketch_move_to(sk[1], p))
TrRotateAround ==
    \E p \in Pivots, a \in Angles :
        Transform("rotate_around", <<p, a>>, Sketch_rotate_around(sk[1], p, a))
TrScale == \E f \in Factors : Transform("scale", f, Sketch_scale(sk[1], f))
TrAdd == Transform("add", sk[2], Sketch_add(sk[1], sk[2]))
\* a.add(&b.move_to(p))
TrAddMoved ==
    \E p \in TransformMovePoints :
        Transform("add_moved", <<sk[2], p>>, Sketch_add(sk[1], Sketch_move_to(sk[2], p)))

TransformNext == TrMoveTo \/ TrRotateAround \/ TrScale \/ TrAdd \/ TrAddMoved

TransformSpec == TransformInit /\ [][TransformNext]_vars
(***************************************************************************)
(* Properties of Sketch, checked under Spec                                *)
(***************************************************************************)
Planes == {Plane_xy, Plane_xz, Plane_yz}

RECURSIVE AddEdgesOnlyFirst(_)
AddEdgesOnlyFirst(log) ==
    \A i \in 1 .. Len(log) :
        /\ log[i].t = "AddEdges" => i = 1
        /\ log[i].t \in {"Add", "Intersect", "Subtract"} => AddEdgesOnlyFirst(log[i].o)

\* C1: every sketch built through the public operations (a measurement
\* builds none) evaluates, on every
\* plane, without reaching the branch "AddEdges with a non-empty
\* accumulator"; on the xy plane the result is Ok(shape) or Err(EmptySketch);
\* and in its log and in the log of every nested operand AddEdges occurs only
\* as the first action.
C1_AddEdgesOnlyFirst ==
    \/ op \in QueryOps
    \/ \A i \in 1 .. 2 :
        /\ AddEdgesOnlyFirst(sk[i])
        /\ \A pl \in Planes \ {Plane_xy} : ~IsPanic(to_occt(sk[i], pl))
        /\ LET r == to_occt(sk[i], Plane_xy) IN IsOk(r) \/ r = Err("EmptySketch")

\* a sketch with an edge-built operand nested behind its own edges has been
\* built and evaluates to a shape on the three planes
C1_Witness ==
    /\ op \in {"add", "circular_pattern", "linear_pattern"}
    /\ Len(ret) >= 2
    /\ ret[1].t = "AddEdges"
    /\ ret[2].t = "Add" /\ Len(ret[2].o) >= 1 /\ ret[2].o[1].t = "AddEdges"
    /\ \A pl \in Planes : IsOk(to_occt(ret, pl))

Evaluated(s) == ResultOk(to_occt(s, Plane_xy))

\* C2: in the fold, Add yields the non-empty one of accumulator and operand
\* when exactly one is empty and empty when both are; Intersect yields empty
\* when either is empty; Subtract yields the accumulator when the operand is
\* empty and empty when the accumulator is.  So S.add(&empty) == S,
\* S.intersect(&empty) evaluates empty and S.subtract(&empty) == S.
C2_FoldIdentityAbsorption ==
    LET acc == Evaluated(recv)
        o   == Evaluated(arg)
        r   == Evaluated(ret)
    IN  /\ op = "add" =>
            /\ IsNone(acc) /\ IsNone(o) => IsNone(r)
            /\ IsNone(acc) /\ IsSome(o) => r = o
            /\ IsSome(acc) /\ IsNone(o) => r = acc
            /\ IsNone(o) => Sketch_eq(ret, recv)
        /\ op = "intersect" => (IsNone(acc) \/ IsNone(o) => IsNone(r))
        /\ op = "subtract" =>
            /\ IsNone(o) => r = acc /\ Sketch_eq(ret, recv)
            /\ IsNone(acc) => IsNone(r)

\* a non-empty sketch has had an empty operand subtracted and kept its shape
C2_Witness ==
    /\ op = "subtract"
    /\ IsSome(Evaluated(recv)) /\ IsNone(Evaluated(arg))
    /\ IsSome(Evaluated(ret)) /\ Mass(Evaluated(ret).v) > 0

\* C3: a sketch with an empty log evaluates to Err(EmptySketch) on every
\* plane, is_empty() is true, area() is 0 and center() is Err(EmptySketch);
\* and when the fold ends with a shape in the accumulator, the evaluation
\* returns Ok with exactly that shape (and Err(EmptySketch) otherwise).
C3_EmptyLogAndFinalStep ==
    /\ \A i \in 1 .. 2 : \A pl \in Planes :
            sk[i] = Sketch_empty => to_occt(sk[i], pl) = Err("EmptySketch")
    /\ recv = Sketch_empty =>
            /\ op = "is_empty" => ret = TRUE
            /\ op = "area" => ret = 0
            /\ op = "center" => ret = Err("EmptySketch")
            /\ op = "to_occt" => ret = Err("EmptySketch")
    /\ op = "to_occt" =>
            LET acc == fold(recv, 1, None, Plane_xy)
            IN  /\ IsSome(acc) => ret = Ok(acc.v)
                /\ IsNone(acc) => ret = Err("EmptySketch")

\* the centre of the empty sketch has been asked for
C3_Witness == op = "center" /\ recv = Sketch_empty /\ IsErr(ret)

\* C4: when two sketches evaluate to shapes whose common part has measure 0,
\* their intersect evaluates to Err(EmptySketch), on every plane.
C4_DisjointIntersectIsEmpty ==
    op = "intersect" =>
        \A pl \in Planes :
            LET a == to_occt(recv, pl)
                b == to_occt(arg, pl)
            IN  IsOk(a) /\ IsOk(b) /\ Mass(Common(a.v, b.v)) = 0
                    => to_occt(ret, pl) = Err("EmptySketch")

\* two rectangles that share only an edge have been intersected
C4_Witness ==
    /\ op = "intersect"
    /\ IsOk(to_occt(recv, Plane_xy)) /\ Mass(to_occt(recv, Plane_xy).v) > 0
    /\ IsOk(to_occt(arg, Plane_xy)) /\ Mass(to_occt(arg, Plane_xy).v) > 0
    /\ Common(to_occt(recv, Plane_xy).v, to_occt(arg, Plane_xy).v) = {}
    /\ IsErr(to_occt(ret, Plane_xy))

\* C5: extrude returns Err(EmptySketch) when the thickness is 0 or the sketch
\* evaluates empty on the plane; otherwise it returns Ok with a Part that
\* holds a solid, of volume area * |thickness|.
C5_ExtrudeErrors ==
    op = "extrude" =>
        LET plane     == arg[1]
            thickness == arg[2]
            shape     == to_occt(recv, plane)
        IN  /\ RIsZero(thickness) => ret = Err("EmptySketch")
            /\ IsErr(shape) => ret = Err("EmptySketch")
            /\ ~RIsZero(thickness) /\ IsOk(shape) =>
                    /\ IsOk(ret)
                    /\ IsSome(ret.v)
                    /\ Part_volume(ret.v) = Mass(shape.v) * Abs(thickness[1])

\* a non-empty sketch has been extruded with thickness 0
C5_Witness ==
    /\ op = "extrude"
    /\ RIsZero(arg[2])
    /\ IsOk(to_occt(recv, arg[1]))
    /\ ret = Err("EmptySketch")

\* C6: for sketches a and b whose intersection evaluates to a shape, a == b
\* holds iff their centres are equal and the area of the intersection differs
\* from the area of a and from the area of b by less than 1e-7 times that
\* area, whatever the absolute size of the sketches.
C6_SketchEqRelativeTolerance ==
    op = "eq" /\ IsOk(to_occt(Sketch_intersect(recv, arg), Plane_xy)) =>
        LET I == occt_area(to_occt(Sketch_intersect(recv, arg), Plane_xy).v)
        IN  ret <=> /\ Sketch_center(recv) = Sketch_center(arg)
                    /\ LessThanTol(Abs(I - Sketch_area(recv)), Sketch_area(recv))
                    /\ LessThanTol(Abs(I - Sketch_area(arg)), Sketch_area(arg))

(***************************************************************************)
(* Properties of Part, checked under PartSpec                              *)
(***************************************************************************)

C8_PartIdentityAbsorption ==
    /\ op = "add" =>
        /\ IsNone(arg) => Part_eq(ret, recv)
        /\ IsNone(recv) => Part_eq(ret, arg)
        /\ IsNone(recv) /\ IsNone(arg) => ret = Part_empty
    /\ op = "intersect" => (IsNone(recv) \/ IsNone(arg) => ret = Part_empty)
    /\ op = "subtract" =>
        /\ IsNone(arg) => Part_eq(ret, recv)
        /\ IsNone(recv) => ret = Part_empty

\* C9: when two Parts holding solids share no volume, intersect returns the
\* empty Part: the result == Part::empty(), its volume is 0 and its center is
\* Err(EmptyPart).
C9_PartIntersectCollapses ==
    op = "intersect" /\ IsSome(recv) /\ IsSome(arg) /\ Mass(Common(recv.v, arg.v)) = 0 =>
        /\ Part_eq(ret, Part_empty)
        /\ Part_volume(ret) = 0
        /\ Part_center(ret) = Err("EmptyPart")

\* C10: for a Part P holding a solid, P.move_to(a).center() == Ok(a) and
\* P.move_to(a).move_to(b) == P.move_to(b); the moved solid is a translate of
\* P's; move_to on the empty Part returns the empty Part.
C10_MoveToCentroidRelative ==
    op = "move_to" =>
        /\ IsNone(recv) => ret = Part_empty
        /\ IsSome(recv) =>
            /\ Part_center(ret) = Ok(arg)
            /\ LET d == Point3D_sub(SolidCentre(ret.v), SolidCentre(recv.v))
               IN  /\ RIsInt(d.x) /\ RIsInt(d.y) /\ RIsInt(d.z)
                   /\ ret.v = TranslateSolid(recv.v, <<d.x[1], d.y[1], d.z[1]>>)
            /\ \A b \in PartMovePoints :
                    Part_eq(Part_move_to(ret, b), Part_move_to(recv, b))

PartBuildOps ==
    {"add", "intersect", "subtract", "move_to", "rotate_around", "scale",
     "circular_pattern", "clone"}

AppendOps == {"add", "intersect", "subtract", "move_to", "rotate_around", "scale"}

\* the action that operation name records for argument a
ActionOf(name, a) ==
    IF name = "add" THEN Add(a)
    ELSE IF name = "intersect" THEN Intersect(a)
    ELSE IF name = "subtract" THEN Subtract(a)
    ELSE IF name = "move_to" THEN MoveTo(a)
    ELSE IF name = "rotate_around" THEN RotateAround(a[1], a[2])
    ELSE Scale(a)

IsPoint2D(a) == DOMAIN a = {"x", "y"}

\* the union of the shapes of S.rotate_around(pivot, k * 360 / n), k = 1 .. n-1
RECURSIVE SketchInstances(_, _, _, _, _)
SketchInstances(S, pivot, n, k, pl) ==
    IF k >= n THEN {}
    ELSE to_occt(Sketch_rotate_around(S, pivot, Rat(360 * k, n)), pl).v
            \cup SketchInstances(S, pivot, n, k + 1, pl)

RECURSIVE PartInstances(_, _, _, _)
PartInstances(P, axis, n, k) ==
    IF k >= n THEN {}
    ELSE Part_rotate_around(P, axis, Rat(360 * k, n)).v \cup PartInstances(P, axis, n, k + 1)

\* C13: S.circular_pattern(pivot, n) evaluates, on every plane, to the shape of
\* S united with the shapes of S.rotate_around(pivot, k * 360 / n) for
\* k = 1 .. n-1 (to the shape of S itself for n = 0 and n = 1, and to nothing
\* when S is empty); P.circular_pattern(axis, n) holds the solid of P united
\* with the solids of P.rotate_around(axis, k * 360 / n) for k = 1 .. n-1.
C13_CircularPattern ==
    op = "circular_pattern" =>
        IF IsPoint2D(arg[1])
        THEN \A pl \in Planes :
                LET shape(S) ==
                        IF IsOk(S)
                        THEN to_occt(ret, pl)
                                = Ok(S.v \cup SketchInstances(recv, arg[1], arg[2], 1, pl))
                        ELSE to_occt(ret, pl) = S
                IN  shape(to_occt(recv, pl))
        ELSE IF IsSome(recv)
             THEN ret = Some(recv.v \cup PartInstances(recv, arg[1], arg[2], 1))
             ELSE ret = Part_empty

\* a rectangle beside the pivot has been repeated four times around it: the
\* four instances do not overlap
C13_Witness ==
    /\ op = "circular_pattern"
    /\ IsPoint2D(arg[1])
    /\ arg[2] = 4
    /\ IsOk(to_occt(recv, Plane_xy))
    /\ Mass(to_occt(recv, Plane_xy).v) > 0
    /\ Mass(to_occt(ret, Plane_xy).v) = 4 * Mass(to_occt(recv, Plane_xy).v)

\* the union of the faces of S moved by k * d / n, k = from .. n, d given in
\* ticks along the two axes of the plane
RECURSIVE MovedCopies(_, _, _, _)
MovedCopies(S, d, n, k) ==
    IF k > n THEN {}
    ELSE TranslateFace(S, <<RMul(d.x, Rat(k, n)), RMul(d.y, Rat(k, n)), RInt(0)>>)
            \cup MovedCopies(S, d, n, k + 1)

\* the copies of a pattern of n steps along d lie on the grid
StepsOnGrid(d, n) ==
    \A k \in 1 .. n : RIsInt(RMul(d.x, Rat(k, n))) /\ RIsInt(RMul(d.y, Rat(k, n)))

\* C14: for a non-empty sketch S with centroid c, a point until other than c
\* and n >= 1, S.linear_pattern(until, n) evaluates to the shape of S united
\* with n copies of it whose centroids lie at c + k * (until - c) / n for
\* k = 1 .. n: the last copy lies at until and there are n + 1 instances.
C14_LinearPatternFromCentroid ==
    op = "linear_pattern" /\ IsOk(to_occt(recv, Plane_xy)) /\ arg[2] >= 1 =>
        LET S == to_occt(recv, Plane_xy).v
            c == Sketch_center(recv).v
            d == Point2D_sub(arg[1], c)
        IN  Mass(S) > 0 /\ c # arg[1] /\ StepsOnGrid(d, arg[2]) =>
                to_occt(ret, Plane_xy) = Ok(S \cup MovedCopies(S, d, arg[2], 1))

\* the union of the shapes of S.move_to(c + k * (until - c) / n), k = from .. n
RECURSIVE MovedTo(_, _, _, _, _)
MovedTo(S, c, until, n, k) ==
    IF k > n THEN {}
    ELSE LET d == Point2D_sub(until, c)
         IN  to_occt(Sketch_move_to(S, Point2D(RAdd(c.x, RMul(d.x, Rat(k, n))),
                                               RAdd(c.y, RMul(d.y, Rat(k, n))))),
                     Plane_xy).v
                \cup MovedTo(S, c, until, n, k + 1)

\* the right-hand side of the example: the square and its copies moved to
\* (1 m, 0), (2 m, 0), (3 m, 0) and (4 m, 0)
DocLinearPattern ==
    Sketch_add(
        Sketch_add(
            Sketch_add(
                Sketch_add(Square1m, Sketch_move_to(Square1m, P2(DocScale, 0))),
                Sketch_move_to(Square1m, P2(2 * DocScale, 0))),
            Sketch_move_to(Square1m, P2(3 * DocScale, 0))),
        Sketch_move_to(Square1m, P2(4 * DocScale, 0)))

Continuous(edges) ==
    \A i \in 2 .. Len(edges) : Edge_start(edges[i]) = Edge_end(edges[i - 1])

\* C16: a Path built by Path::at(p) and any sequence of line_to calls never
\* hits the continuity panic of add_edge; its start() is p, its end() is the
\* argument of the last line_to (p when it has no edge), its cursor is its
\* end(), every edge starts where the edge before it ends, and line_to returns
\* a new Path (the receiver's edges followed by the line from the receiver's
\* cursor to the argument) while the receiver and the path that Path::at
\* returned stay what they were.
C16_PathContinuous ==
    [][/\ sk'[1] # Panic
       /\ ret' # Panic
       /\ sk'[2] = Path_at(sk'[2].cursor)
       /\ Path_start(sk'[1]) = sk'[2].cursor
       /\ sk'[1].cursor = Path_end(sk'[1])
       /\ Continuous(sk'[1].edges)
       /\ Len(sk'[1].edges) = steps'
       /\ Len(sk'[1].edges) = 0 => Path_end(sk'[1]) = sk'[2].cursor
       /\ op' = "at" => sk'[1] = Path_at(arg') /\ Path_start(ret') = arg' /\ Path_end(ret') = arg'
       /\ op' = "line_to" =>
            /\ recv' = sk[1]
            /\ sk'[1] = ret'
            /\ sk'[2] = sk[2]
            /\ Path_end(ret') = arg'
            /\ ret'.edges = Append(recv'.edges, Line(recv'.cursor, arg'))
            /\ Path_start(ret') = Path_start(recv')
       /\ op' = "start" => ret' = sk'[2].cursor /\ sk' = sk
       /\ op' = "end" =>
            /\ sk' = sk
            /\ ret' = IF steps' = 0 THEN sk'[2].cursor
                      ELSE sk'[1].edges[steps'].b]_vars

C16_Witness ==
    /\ op = "line_to"
    /\ steps = MaxPathLen
    /\ Len(recv.edges) = MaxPathLen - 1
    /\ Path_start(ret) = P2(2, 1)
    /\ Path_end(ret) = P2(-1, 3)
    /\ Path_end(recv) = P2(0, 0)
    /\ ret.cursor = arg
    /\ sk[2] = Path_at(P2(2, 1))

(***************************************************************************)
(* Properties of Plane, checked under PlaneSpec                            *)
(***************************************************************************)
IsUnit(d) == Dir3_dot(d, d) = RInt(1)
Orthogonal(a, b) == Dir3_dot(a, b) = RInt(0)

UnitOrthogonalAxes(pl) ==
    /\ IsUnit(pl.x_axis)
    /\ IsUnit(pl.y_axis)
    /\ Orthogonal(pl.x_axis, pl.y_axis)
    /\ IsUnit(Plane_normal_rational(pl))
    /\ Orthogonal(Plane_normal_rational(pl), pl.x_axis)
    /\ Orthogonal(Plane_normal_rational(pl), pl.y_axis)

\* C17: every Plane that Plane::new returns as Ok has two unit axes that are
\* orthogonal to each other, and its normal() is a unit vector perpendicular
\* to both; Plane::xy() is such a plane and its normal() is +z.
C17_PlaneAxesOrthonormal ==
    /\ op = "new" /\ IsOk(ret) => UnitOrthogonalAxes(ret.v)
    /\ op = "xy" =>
        /\ ret # Panic
        /\ UnitOrthogonalAxes(ret)
        /\ Plane_normal_rational(ret) = RVec(0, 0, 1)
        /\ Plane(ret.origin, Dir3_whole(ret.x_axis), Dir3_whole(ret.y_axis)) = Plane_xy
    /\ op = "normal" =>
        /\ ret = Plane_normal_rational(recv)
        /\ IsUnit(ret)
        /\ Orthogonal(ret, recv.x_axis)
        /\ Orthogonal(ret, recv.y_axis)

\* the part of C17 that the code satisfies: the axes are unit vectors, and
\* they are orthogonal whenever the dot product of the arguments is zero
C17_AxesUnitLength ==
    op = "new" /\ IsOk(ret) =>
        /\ IsUnit(ret.v.x_axis)
        /\ IsUnit(ret.v.y_axis)
        /\ Dir3_dot(arg[2], arg[3]) = RInt(0) => UnitOrthogonalAxes(ret.v)

C17_Parallel ==
    /\ op = "new"
    /\ arg = <<Point3D_origin, RVec(1, 0, 0), RVec(-1, 0, 0)>>
    /\ ret = Ok(Plane(Point3D_origin, RVec(1, 0, 0), RVec(-1, 0, 0)))
    /\ Plane_normal_rational(ret.v) = RVec(0, 0, 0)

IsZeroVector(v) == v = RVec(0, 0, 0)

\* d is v scaled to unit length: a unit vector parallel to v that points the
\* same way
Normalized(d, v) ==
    /\ IsUnit(d)
    /\ Dir3_cross_rational(d, v) = RVec(0, 0, 0)
    /\ RLess(RInt(0), Dir3_dot(d, v))

C18_AtTolerance ==
    op = "new" /\ arg[3][1] = HalfTol =>
        /\ arg[2] = RVec(2, 0, 0) => ~IsOk(ret) /\ ret.e[1] = "VectorsNotOrthogonal"
        /\ arg[2] = RVec(1, 0, 0) => ret = Ok(Plane(arg[1], RVec(1, 0, 0), RVec(1, 0, 0)))
        /\ arg[2] = RVec(0, 0, 0) => ret = Err(<<"ZeroVector", arg[2]>>)

(***************************************************************************)
(* Properties of the primitive constructors, checked under PrimSpec        *)
(***************************************************************************)
\* one of the extents given to a solid constructor is exactly zero
ZeroExtent(name, a) ==
    IF name = "Cuboid::from_corners"
    THEN a[1].x = a[2].x \/ a[1].y = a[2].y \/ a[1].z = a[2].z
    ELSE \E i \in 1 .. Len(a) : a[i] = RInt(0)

\* the volume in cells of the solid a constructor is asked for
AskedVolume(name, a) ==
    IF name = "Cuboid::from_corners"
    THEN Abs((a[1].x[1] - a[2].x[1]) * (a[1].y[1] - a[2].y[1]) * (a[1].z[1] - a[2].z[1]))
    ELSE IF name = "Cuboid::from_dim" THEN Abs(a[1][1] * a[2][1] * a[3][1])
    ELSE 0

\* C19: Cuboid::from_dim and Cuboid::from_corners with one of the three
\* extents exactly 0, Sphere::from_radius(0), Sphere::from_diameter(0) and
\* Cylinder::from_radius with radius or height 0 return a Part that is equal
\* to Part::empty(); with every extent non-zero the Part is not empty, in
\* whatever order the two corners of a cuboid are given.
C19_DegenerateSolidsEmpty ==
    /\ op \in SolidOps =>
        IF ZeroExtent(op, arg)
        THEN /\ ret = Part_empty
             /\ Part_eq(ret, Part_empty)
             /\ Part_volume(ret) = 0
        ELSE /\ IsSome(ret)
             /\ ~Part_eq(ret, Part_empty)
             /\ Part_volume(ret) > 0
             /\ op \in {"Cuboid::from_dim", "Cuboid::from_corners"} =>
                    Part_volume(ret) = AskedVolume(op, arg)
    /\ op = "Part::eq" => (ret <=> ZeroExtent(IF Len(arg) = 2 /\ DOMAIN arg[1] = {"x", "y", "z"}
                                               THEN "Cuboid::from_corners" ELSE "", arg))

C19_Witness ==
    /\ op = "Part::eq"
    /\ arg = <<RInt(2), RInt(0), RInt(4)>>
    /\ recv = Part_empty
    /\ part[1] = Part_empty
    /\ ret = TRUE

\* cuboids with the same two corners in either order, and the degenerate
\* solids of each constructor
C19_EitherOrder ==
    /\ Cuboid_from_corners(P3(1, 2, 3), P3(-1, 0, 0)) = Cuboid_from_corners(P3(-1, 0, 0), P3(1, 2, 3))
    /\ Cuboid_from_corners(P3(1, 0, 3), P3(-1, 2, 0)) = Cuboid_from_corners(P3(-1, 0, 0), P3(1, 2, 3))
    /\ Part_volume(Cuboid_from_corners(P3(1, 0, 3), P3(-1, 2, 0))) = 12

\* a line whose start equals its end, or a circle of radius 0
ZeroLength(e) == IF e.t = "Circle" THEN e.r = RInt(0) ELSE e.a = e.b
HasLength(e) == ~ZeroLength(e)

\* C20: evaluating AddEdges drops every edge of length zero (a line whose
\* start equals its end, a circle of radius 0) and gives the empty result if
\* no edge is left; Circle::from_radius(0) evaluates empty, and
\* Rectangle::from_corners with equal x or equal y coordinates, hence
\* Rectangle::from_dim with a dimension of zero, is equal to Sketch::empty().
C20_DegenerateEdgesDropped ==
    /\ op = "Sketch::from_edges" =>
        /\ ret = <<AddEdges(arg[1])>>
        /\ \A pl \in Planes :
            /\ to_occt(ret, pl) = to_occt(Sketch_from_edges(SelectSeq(arg[1], HasLength)), pl)
            /\ SelectSeq(arg[1], HasLength) = <<>> => to_occt(ret, pl) = Err("EmptySketch")
            /\ SelectSeq(arg[1], HasLength) # <<>> =>
                    IsOk(to_occt(ret, pl)) /\ Mass(to_occt(ret, pl).v) > 0
        /\ Sketch_is_empty(ret) <=> SelectSeq(arg[1], HasLength) = <<>>
    /\ op = "Circle::from_radius" =>
        /\ ret = <<AddEdges(<<Circle(Point2D_origin, arg[1])>>)>>
        /\ arg[1] = RInt(0) =>
            /\ Sketch_is_empty(ret)
            /\ \A pl \in Planes : to_occt(ret, pl) = Err("EmptySketch")
            /\ Sketch_area(ret) = 0
        /\ arg[1] # RInt(0) => ~Sketch_is_empty(ret) /\ Sketch_area(ret) > 0
    /\ op = "Rectangle::from_corners" /\
        (arg[1].x = arg[2].x \/ arg[1].y = arg[2].y) =>
            (ret = Sketch_empty /\ Sketch_eq(ret, Sketch_empty) /\ Sketch_is_empty(ret))
    /\ op = "Rectangle::from_dim" /\
        (arg[1] = RInt(0) \/ arg[2] = RInt(0)) =>
            (ret = Sketch_empty /\ Sketch_eq(ret, Sketch_empty) /\ Sketch_is_empty(ret))
    /\ op = "Sketch::to_occt" => ret = to_occt(recv, Plane_xy) /\ recv = sk[1]
    /\ op = "Sketch::is_empty" => (ret <=> ~IsOk(to_occt(recv, Plane_xy)))
    /\ op = "Sketch::eq" /\ recv = Sketch_empty => ret

C20_Witness ==
    /\ op = "Sketch::to_occt"
    /\ Len(recv) = 1
    /\ Len(recv[1].edges) = 6
    /\ Len(SelectSeq(recv[1].edges, ZeroLength)) = 2
    /\ arg = <<recv[1].edges>>
    /\ IsOk(ret)
    /\ Mass(ret.v) = 2

(***************************************************************************)
(* Properties of the exports, checked under ExportSpec                     *)
(***************************************************************************)
ExportStep(o, self, a, r, before, after) ==
    /\ o \in {"volume", "center"} /\ IsNone(self) =>
          r = (IF o = "volume" THEN 0 ELSE Err("EmptyPart"))
    /\ o = "center" /\ IsSome(self) => IsOk(r)
    /\ o \in ExportOps /\ IsNone(self) => r = Err("EmptyPart") /\ after = before
    /\ o \in ExportOps /\ IsSome(self) =>
          IF a.done THEN IsOk(r)
          ELSE r = ErrPath(IF o = "write_step" THEN "StepWrite" ELSE "StlWrite", a.path)

\* C21: on the empty Part volume() is 0, center() is Err(EmptyPart) and the
\* three exports return Err(EmptyPart) and leave every file as it was; on a
\* Part that holds a shape center() is Ok and an export the kernel fails is
\* reported as StepWrite(path) or StlWrite(path) with the path of the call
C21_EmptyPartAndExportErrors ==
    [][ExportStep(op', recv', arg', ret', files, files')]_vars

\* the empty Part was exported after a file had been written
C21_Witness ==
    /\ op \in ExportOps
    /\ IsNone(recv)
    /\ \E p \in Paths : files[p] # NoFile

\* an export of a Part that holds a shape failed in the kernel
C21_WitnessKernelFailure ==
    /\ op \in ExportOps
    /\ IsSome(recv)
    /\ IsErr(ret)
Times1000(p) == Point3D(RMul(RInt(1000), p.x), RMul(RInt(1000), p.y), RMul(RInt(1000), p.z))

\* C22: write_step writes the Part with every length, the distance of its
\* centroid from the global origin included, multiplied by 1000; write_stl
\* and stl write the Part as it is
C22_StepExportInMillimetres ==
    /\ op = "write_step" /\ IsOk(ret) =>
          /\ files[arg.path].k = "Step"
          /\ files[arg.path].shape.solid = recv.v
          /\ TransformedCellSize(files[arg.path].shape) = 1000
          /\ TransformedCentre(files[arg.path].shape) = Times1000(SolidCentre(recv.v))
    /\ op = "write_stl" /\ IsOk(ret) =>
          files[arg.path] = StlFile(Transformed(recv.v, IdentityTransform))
    /\ op = "stl" /\ IsOk(ret) =>
          ret.v = StlFile(Transformed(recv.v, IdentityTransform))

\* what of C22 the code does: the sizes are multiplied by 1000 about the
\* centre that center() reports, which is where the written centroid stays
\* when center() is exact
C22_StepExportScaledAboutCenter ==
    /\ op = "write_step" /\ IsOk(ret) =>
          /\ files[arg.path].k = "Step"
          /\ files[arg.path].shape.solid = recv.v
          /\ TransformedCellSize(files[arg.path].shape) = 1000
          /\ Part_center(recv).v = SolidCentre(recv.v) =>
                TransformedCentre(files[arg.path].shape) = SolidCentre(recv.v)
    /\ op = "write_stl" /\ IsOk(ret) =>
          files[arg.path] = StlFile(Transformed(recv.v, IdentityTransform))
    /\ op = "stl" /\ IsOk(ret) =>
          ret.v = StlFile(Transformed(recv.v, IdentityTransform))

\* a Part whose centroid is away from the origin and exactly reported was
\* written as STEP
C22_Witness ==
    /\ op = "write_step"
    /\ IsOk(ret)
    /\ SolidCentre(recv.v) # Point3D_origin
    /\ Part_center(recv).v = SolidCentre(recv.v)
(***************************************************************************)
(* Properties of chained combinators, checked under ChainSpec              *)
(***************************************************************************)
SameGeometry(s, t) == Evaluated(s) = Evaluated(t)

\* C23 as stated: the chains of add, of intersect and of subtract grouped to
\* the left and to the right are equal sketches
C23_ChainsAssociative ==
    op \in {"add", "intersect", "subtract"} => ret /\ SameGeometry(recv, arg)

\* C23: the chains of add and of intersect grouped to the left and to the
\* right denote the same geometry and compare equal; a.subtract(&b).subtract(&c)
\* is a.subtract(&b.add(&c)), and it is a.subtract(&b.subtract(&c)) whenever
\* a and c share no area
C23_AddIntersectAssociative ==
    /\ op \in {"add", "intersect", "subtract_sum"} => ret /\ SameGeometry(recv, arg)
    /\ op = "subtract" /\ Sketch_is_empty(Sketch_intersect(sk[1], sk[3])) =>
          ret /\ SameGeometry(recv, arg)

\* C23 for subtract alone, by == only
C23_SubtractAssociative == op = "subtract" => ret
\* three sketches that hold shapes, b and c overlapping, were chained
C23_Witness ==
    /\ op \in {"add", "intersect", "subtract_sum"}
    /\ \A i \in 1 .. 3 : ~Sketch_is_empty(sk[i])
    /\ ~Sketch_is_empty(Sketch_intersect(sk[2], sk[3]))
    /\ sk[2] # sk[3]
    /\ sk[1] # sk[2]
(***************************************************************************)
(* Properties of the transformations, checked under TransformSpec          *)
(***************************************************************************)
\* the shape S translated by the vector p.to_3d(pl)
TranslatedBy(S, p, pl) == TranslateFace(S, InFrame(Point2D_to_3d(p, pl), pl))

\* C24: MoveTo(p) translates a non-empty accumulator by the vector
\* p.to_3d(plane) wherever its centroid lies and leaves an empty accumulator
\* empty; a sketch whose centroid is at the local origin has its centre at p
\* after move_to(p)
C24_MoveToTranslates ==
    op = "move_to" =>
        /\ \A pl \in Planes :
              LET moved(a, r) ==
                      /\ IsOk(a) => r = Ok(TranslatedBy(a.v, arg, pl))
                      /\ IsErr(a) => r = Err("EmptySketch")
              IN  moved(to_occt(recv, pl), to_occt(ret, pl))
        /\ Sketch_center(recv) = Ok(Point2D_origin) => Sketch_center(ret) = Ok(arg)

\* what MoveTo does: the accumulator is placed at p.to_3d(plane) with the
\* location it had taken off, which is a translation by that vector for a
\* shape whose location is the identity
C24_MoveToPlaces ==
    op = "move_to" =>
        \A pl \in Planes :
            LET placed(a, r) ==
                    /\ IsOk(a) => r = Ok(TranslatedBy(Unlocated(a), arg, pl))
                    /\ IsOk(a) /\ a.loc = IdentityLocation => r = Ok(TranslatedBy(a.v, arg, pl))
                    /\ IsErr(a) => r = Err("EmptySketch")
            IN  placed(to_occt_located(recv, pl), to_occt(ret, pl))

\* a rotated rectangle away from the origin has been moved
C24_Witness ==
    /\ op = "move_to"
    /\ Len(recv) = 2
    /\ recv[2].t = "RotateAround"
    /\ IsOk(Sketch_center(recv))
    /\ Sketch_center(recv) # Ok(Point2D_origin)
\* the shape S scaled by f about its own centroid
ScaledAboutCentroid(S, f) == ScaleFace(S, FaceCentreLocal(S), f)
InPlane(S) == \A c \in S : RIsZero(c[3])

\* C25: Scale(factor) scales a non-empty accumulator uniformly about its
\* centroid: the centroid of the result is the centroid before, the result
\* lies in the evaluation plane and is the shape scaled about its own centre
\* wherever it is located; an empty accumulator stays empty
C25_ScaleAboutCentroid ==
    op = "scale" =>
        \A pl \in Planes :
            LET scaled(a, r) ==
                    /\ IsOk(a) =>
                          /\ IsOk(r)
                          /\ FaceCentre(r.v, pl) = FaceCentre(a.v, pl)
                          /\ InPlane(r.v)
                          /\ r.v = ScaledAboutCentroid(a.v, arg)
                    /\ IsErr(a) => r = Err("EmptySketch")
            IN  scaled(to_occt(recv, pl), to_occt(ret, pl))

\* what Scale does: the area grows by the square of the factor, and the
\* result is the shape scaled about its centroid when the global x and z
\* coordinates of the centroid are equal
C25_ScaleAboutOcctCenter ==
    op = "scale" =>
        \A pl \in Planes :
            LET scaled(a, r) ==
                    /\ IsOk(a) =>
                          /\ IsOk(r)
                          /\ Mass(r.v) = arg * arg * Mass(a.v)
                          /\ FaceCentre(a.v, pl).z = FaceCentre(a.v, pl).x =>
                                /\ r.v = ScaledAboutCentroid(a.v, arg)
                                /\ InPlane(r.v)
                    /\ IsErr(a) => r = Err("EmptySketch")
            IN  scaled(to_occt(recv, pl), to_occt(ret, pl))

\* a rectangle away from the origin has been scaled
C25_Witness ==
    /\ op = "scale"
    /\ IsOk(Sketch_center(recv))
    /\ Sketch_center(recv) # Ok(Point2D_origin)
(***************************************************************************)
(* Further properties of Sketch, checked under Spec                        *)
(***************************************************************************)
\* C26: two sketches that both evaluate to shapes and whose intersect
\* evaluates empty are not equal, whether or not their centres coincide
C26_DisjointSketchesDiffer ==
    op = "eq" /\ ~Sketch_is_empty(recv) /\ ~Sketch_is_empty(arg)
              /\ Sketch_is_empty(Sketch_intersect(recv, arg))
        => ret = FALSE

\* what == does for sketches that share no area: they are unequal when their
\* centres differ and equal when their centres coincide
C26_DisjointSketchesCompareCentres ==
    op = "eq" /\ ~Sketch_is_empty(recv) /\ ~Sketch_is_empty(arg)
              /\ Sketch_is_empty(Sketch_intersect(recv, arg))
        => (ret <=> Sketch_center(recv) = Sketch_center(arg))

\* a rectangle has been compared with the ring around it
C26_Witness ==
    /\ op = "eq"
    /\ Sketch_area(recv) > 0 /\ Sketch_area(arg) > 0
    /\ Sketch_is_empty(Sketch_intersect(recv, arg))
    /\ Sketch_center(recv) = Sketch_center(arg)
\* C27: a sketch evaluates to a shape only if the shape has an area, so
\* is_empty() is true exactly when area() is 0, and a sketch of area 0 cannot
\* be extruded
C27_EvaluatedShapesHaveArea ==
    /\ op = "to_occt" /\ IsOk(ret) => occt_area(ret.v) > 0
    /\ op = "is_empty" => (ret <=> Sketch_area(recv) = 0)
    /\ op = "extrude" /\ IsOk(ret) => occt_area(to_occt(recv, arg[1]).v) > 0

\* what holds of C27: an empty sketch has area 0 and cannot be extruded
C27_EmptyHasNoArea ==
    /\ op = "is_empty" /\ ret => Sketch_area(recv) = 0
    /\ op = "extrude" /\ IsOk(ret) => IsOk(to_occt(recv, arg[1]))

\* a sketch that has had itself subtracted is reported as not empty
C27_Witness ==
    /\ op = "is_empty"
    /\ ~ret
    /\ Sketch_area(recv) = 0
    /\ Len(recv) = 2 /\ recv[2].t = "Subtract"

\* a sketch of area 0 has been extruded to a Part
C27_WitnessExtruded ==
    /\ op = "extrude"
    /\ IsOk(ret)
    /\ Sketch_area(recv) = 0
(***************************************************************************)
(* Further properties of Part, checked under PartSpec                      *)
(***************************************************************************)
\* C28: Part equality is reflexive: every Part, a handle of volume 0
\* included, is equal to itself
C28_PartEqReflexive == op = "eq" /\ recv = arg => ret = TRUE

\* what holds of C28: a Part is equal to itself exactly when it is empty or
\* has a volume
C28_PartEqReflexiveWithVolume ==
    op = "eq" /\ recv = arg => (ret <=> (IsNone(recv) \/ Part_volume(recv) > 0))

\* a Part that holds a solid of volume 0 has been compared with itself
C28_Witness ==
    /\ op = "eq"
    /\ recv = arg
    /\ IsSome(recv)
    /\ Part_volume(recv) = 0
(***************************************************************************)
(* The scope of a transformation, checked under TransformSpec              *)
(***************************************************************************)
\* the log without its last action
Front(log) == SubSeq(log, 1, Len(log) - 1)

C29_WitnessMovedAfter ==
    /\ op = "move_to"
    /\ Len(recv) > 0
    /\ recv[Len(recv)].t = "Add"
    /\ ~Sketch_is_empty(Front(recv))
    /\ ~Sketch_is_empty(recv[Len(recv)].o)
\* |d| <= tpm * num / den ticks, that is num / den metres, for a length d in ticks
WithinMetres(d, num, den) == Abs(d[1]) <= (tpm * num * d[2]) \div den
PointWithinMetres(a, b, num, den) ==
    /\ WithinMetres(RSub(a.x, b.x), num, den)
    /\ WithinMetres(RSub(a.y, b.y), num, den)
    /\ WithinMetres(RSub(a.z, b.z), num, den)

\* C30: center() is the centroid of the solid with each coordinate rounded
\* to 9 decimal places, so it is within 5e-10 m of the centroid in every
\* coordinate, and move_to places the centroid of a Part that has a volume at
\* the point with that accuracy
C30_CenterRoundedToNineDigits ==
    /\ op = "center" /\ IsSome(recv) =>
          PointWithinMetres(ret.v, SolidCentre(recv.v), 1, 2000000000)
    /\ op = "move_to" /\ Part_volume(recv) > 0 =>
          PointWithinMetres(SolidCentre(ret.v), arg, 1, 2000000000)

\* what center() does: each coordinate is rounded to the nearest third of a
\* metre, so it is within 1/6 m of the centroid, and so is the centroid of a
\* moved Part of the point it was moved to
C30_CenterRoundedToThirds ==
    /\ op = "center" /\ IsSome(recv) =>
          /\ PointWithinMetres(ret.v, SolidCentre(recv.v), 1, 6)
          /\ RIsInt(RMul(Length_m(ret.v.x), RInt(3)))
          /\ RIsInt(RMul(Length_m(ret.v.y), RInt(3)))
          /\ RIsInt(RMul(Length_m(ret.v.z), RInt(3)))
    /\ op = "move_to" /\ Part_volume(recv) > 0 =>
          PointWithinMetres(SolidCentre(ret.v), arg, 1, 6)

\* the centre of a Part whose centroid is not a multiple of 1/3 m has been asked for
C30_Witness ==
    /\ op = "center"
    /\ IsSome(recv)
    /\ ret.v # SolidCentre(recv.v)
====
